---- MODULE Spec2Model ----
(***************************************************************************)
(* Options analytics and matching engine of src/src/option_fetcher.py:     *)
(* the symbol normalizer, the instrument matcher, the Black-Scholes        *)
(* pricing model with its bisection solver, and the snapshot assembler.    *)
(*                                                                         *)
(* Python strings are sequences of one-character strings; Python values    *)
(* that may be None, a string, a number or a date are tagged records       *)
(* (PyNone, PyStr, PyInt, PyFloat, PyDate).  Floats are fixed-point        *)
(* integers with SCALE units per 1.0, kept within 32 bits: magnitudes      *)
(* stay below 2147.                                                        *)
(***************************************************************************)
EXTENDS Integers, Sequences, FiniteSets, TLC

VARIABLES
    n_value,        \* _normalize_underlying: the argument (a Python value)
    n_result,       \* _normalize_underlying: the value returned, or NotRun
    n_again,        \* the result of normalizing n_result once more, or NotRun
    m_pc,           \* filter_options_for_underlyings: "idle", "start", "loop", "done", "raised"
    m_underlyings,  \* its argument underlyings (a list of Python values)
    m_normalized,   \* normalized_underlyings (a set of strings)
    m_catalog,      \* the records of instruments_dump iterated so far
    m_results,      \* results (a list of OptionInstrument)
    m_first,        \* <<results, catalog>> of the first of two runs on the same input, or <<>>
    iv_pc,          \* _implied_volatility: "idle", "call", "loop", "done"
    iv_args,        \* its arguments price, S, K, T, r, q, opt_type
    iv_low,         \* low
    iv_high,        \* high
    iv_iter,        \* iterations of the for loop completed
    iv_evals,       \* calls of _bs_price made by this call
    iv_ret,         \* the value returned: None or a float
    iv_sigma0,      \* the volatility the price was generated at, or 0
    a_pc,           \* build_option_data_snapshot: "idle", "start", "loop", "solving", "done"
    a_instruments,  \* its argument option_instruments
    a_ltp,          \* ltp_resp, the answer of fetch_ltp_bulk
    a_quotes,       \* quotes, the answer of fetch_quote_bulk
    a_spot,         \* underlying_spot
    a_i,            \* the position of the for loop in option_instruments
    a_cur,          \* the locals of the current iteration while the solver runs
    a_depth_bound,  \* whether the locals buy_depth and sell_depth are bound
    a_results,      \* results
    a_outcome,      \* "running", "returned", or the exception raised
    a_fetches,      \* the fetch calls made, in order
    a_trace,        \* per processed instrument: what was invoked and emitted
    p_pc,           \* a direct call of the pricing functions: "idle", "call", "priced", "done"
    p_args,         \* its arguments S, K, T, r, q, sigma, opt_type
    p_price,        \* the value returned by _bs_price
    p_greeks,       \* the dict returned by _bs_greeks
    e_pc,           \* a direct call of _extract_underlying_candidates: "idle", "call", "done"
    e_inst,         \* its argument
    e_prefix,       \* its local prefix, None while no prefix was extracted
    e_candidates    \* the set it returns

normVars == <<n_value, n_result, n_again>>
matchVars == <<m_pc, m_underlyings, m_normalized, m_catalog, m_results, m_first>>

ivVars == <<iv_pc, iv_args, iv_low, iv_high, iv_iter, iv_evals, iv_ret, iv_sigma0>>

asmVars == <<a_pc, a_instruments, a_ltp, a_quotes, a_spot, a_i, a_cur,
             a_depth_bound, a_results, a_outcome, a_fetches, a_trace>>

pricingVars == <<p_pc, p_args, p_price, p_greeks>>

extractVars == <<e_pc, e_inst, e_prefix, e_candidates>>

vars == <<normVars, matchVars, ivVars, asmVars, pricingVars, extractVars>>

(***************************************************************************)
(* Python values                                                           *)
(***************************************************************************)
PyNone == [t |-> "none", s |-> <<>>, n |-> 0]
PyStr(str) == [t |-> "str", s |-> str, n |-> 0]
PyInt(k) == [t |-> "int", s |-> <<>>, n |-> k]
PyFloat(x) == [t |-> "float", s |-> <<>>, n |-> x]      \* x in fixed-point units
PyDate(d) == [t |-> "date", s |-> <<>>, n |-> d]        \* d a proleptic ordinal
PyInf == [t |-> "inf", s |-> <<>>, n |-> 0]            \* float("inf"), as json reads Infinity
NotRun == [t |-> "notrun", s |-> <<>>, n |-> 0]

IsStr(v) == v.t = "str"

(***************************************************************************)
(* Characters.  Whitespace is what str.strip() removes; only " " is what   *)
(* str.replace(" ", "") removes.                                           *)
(***************************************************************************)
Whitespace == {" ", "\t"}
Digits == {"0", "1", "2", "3", "4", "5", "6", "7", "8", "9"}
LowerToUpper ==
    [c \in {"n", "i", "f", "t", "y", "b", "a", "k", "x"} |->
        CASE c = "n" -> "N" [] c = "i" -> "I" [] c = "f" -> "F"
          [] c = "t" -> "T" [] c = "y" -> "Y" [] c = "b" -> "B"
          [] c = "a" -> "A" [] c = "k" -> "K" [] c = "x" -> "X"]

\* str.upper() on one character
UpperChar(c) == IF c \in DOMAIN LowerToUpper THEN LowerToUpper[c] ELSE c

\* str.upper()
Upper(str) == [i \in 1..Len(str) |-> UpperChar(str[i])]

\* Strip as str.strip(" ") would do it: tabs are kept
StripSpacesOnly(str) ==
    LET keep == {i \in 1..Len(str) : str[i] /= " "}
    IN  IF keep = {} THEN <<>>
        ELSE LET lo == CHOOSE i \in keep : \A j \in keep : i <= j
                 hi == CHOOSE i \in keep : \A j \in keep : i >= j
             IN  SubSeq(str, lo, hi)

\* str.strip(): drop leading and trailing whitespace
Strip(str) ==
    LET keep == {i \in 1..Len(str) : str[i] \notin Whitespace}
    IN  IF keep = {} THEN <<>>
        ELSE LET lo == CHOOSE i \in keep : \A j \in keep : i <= j
                 hi == CHOOSE i \in keep : \A j \in keep : i >= j
             IN  SubSeq(str, lo, hi)

\* str.replace(" ", ""): drop every space character (and nothing else)
RemoveSpaces(str) == SelectSeq(str, LAMBDA c : c /= " ")

(***************************************************************************)
(* _UNDERLYING_ALIASES                                                     *)
(***************************************************************************)
sNIFTY == <<"N", "I", "F", "T", "Y">>
sBANK == <<"B", "A", "N", "K">>
sFIN == <<"F", "I", "N">>
sSERVICE == <<"S", "E", "R", "V", "I", "C", "E">>
s50 == <<"5", "0">>
sSP == <<" ">>
sBANKNIFTY == sBANK \o sNIFTY
sFINNIFTY == sFIN \o sNIFTY

AliasKeys ==
    { sNIFTY, sNIFTY \o s50, sNIFTY \o sSP \o s50,
      sBANKNIFTY, sBANK \o sSP \o sNIFTY, sNIFTY \o sSP \o sBANK,
      sFINNIFTY, sNIFTY \o sSP \o sFIN \o sSP \o sSERVICE }

\* An alias table whose value for "NIFTY 50" is the non-canonical "NIFTY50"
UNDERLYING_ALIASES_chained ==
    [k \in AliasKeys |->
        IF k = sNIFTY \o sSP \o s50 THEN sNIFTY \o s50
        ELSE IF k \in {sNIFTY, sNIFTY \o s50} THEN sNIFTY
        ELSE IF k \in {sBANKNIFTY, sBANK \o sSP \o sNIFTY, sNIFTY \o sSP \o sBANK}
             THEN sBANKNIFTY
             ELSE sFINNIFTY]

UNDERLYING_ALIASES ==
    [k \in AliasKeys |->
        IF k \in {sNIFTY, sNIFTY \o s50, sNIFTY \o sSP \o s50} THEN sNIFTY
        ELSE IF k \in {sBANKNIFTY, sBANK \o sSP \o sNIFTY, sNIFTY \o sSP \o sBANK}
             THEN sBANKNIFTY
             ELSE sFINNIFTY]

(***************************************************************************)
(* _normalize_underlying(value): a string in, a string out                 *)
(***************************************************************************)
NormalizeStr(str) ==
    LET raw == Upper(Strip(str))
        collapsed == RemoveSpaces(raw)
    IN  IF raw = <<>> THEN <<>>
        ELSE IF raw \in AliasKeys THEN UNDERLYING_ALIASES[raw]
        ELSE IF collapsed \in AliasKeys THEN UNDERLYING_ALIASES[collapsed]
        ELSE collapsed

\* (value or ""): None and "" are falsy
normalize_underlying(value) ==
    IF IsStr(value) THEN NormalizeStr(value.s) ELSE NormalizeStr(<<>>)

(***************************************************************************)
(* Inputs of the normalizer: None, and every concatenation of at most      *)
(* MaxPieces fragments.                                                    *)
(***************************************************************************)
MaxPieces == 5

Fragments ==
    { sNIFTY, sBANK, sFIN, sSERVICE, s50, sSP, <<"\t">>,
      <<"n", "i", "f", "t", "y">> }

RECURSIVE Concats(_)
Concats(k) ==
    IF k = 0 THEN {<<>>}
    ELSE LET P == Concats(k - 1) IN P \cup {p \o f : p \in P, f \in Fragments}

NormInputs(k) == {PyNone} \cup {PyStr(str) : str \in Concats(k)}

IdleNormalize ==
    /\ n_value = PyNone
    /\ n_result = NotRun
    /\ n_again = NotRun

IdleMatch ==
    /\ m_pc = "idle"
    /\ m_underlyings = <<>>
    /\ m_normalized = {}
    /\ m_catalog = <<>>
    /\ m_results = <<>>
    /\ m_first = <<>>

NoArgs == [price |-> 0, S |-> 0, K |-> 0, T |-> 0, r |-> 0, q |-> 0, opt_type |-> "C"]

IdleSolver ==
    /\ iv_pc = "idle"
    /\ iv_args = NoArgs
    /\ iv_low = 0
    /\ iv_high = 0
    /\ iv_iter = 0
    /\ iv_evals = 0
    /\ iv_ret = NotRun
    /\ iv_sigma0 = 0

NoCur == [idle |-> TRUE]

NoPricingArgs ==
    [S |-> 0, K |-> 0, T |-> 0, r |-> 0, q |-> 0, sigma |-> 0, opt_type |-> "C"]

IdlePricing ==
    /\ p_pc = "idle"
    /\ p_args = NoPricingArgs
    /\ p_price = NotRun
    /\ p_greeks = NotRun

IdleExtract ==
    /\ e_pc = "idle"
    /\ e_inst = [name |-> PyNone, tradingsymbol |-> PyNone]
    /\ e_prefix = PyNone
    /\ e_candidates = {}

IdleAssembler ==
    /\ a_pc = "idle"
    /\ a_instruments = <<>>
    /\ a_ltp = <<>>
    /\ a_quotes = <<>>
    /\ a_spot = <<>>
    /\ a_i = 0
    /\ a_cur = NoCur
    /\ a_depth_bound = FALSE
    /\ a_results = <<>>
    /\ a_outcome = "running"
    /\ a_fetches = <<>>
    /\ a_trace = <<>>

InitNormalize ==
    /\ n_value \in NormInputs(MaxPieces)
    /\ n_result = NotRun
    /\ n_again = NotRun
    /\ IdleMatch
    /\ IdleSolver
    /\ IdleAssembler
    /\ IdlePricing
    /\ IdleExtract

\* result = _normalize_underlying(value)
Normalize ==
    /\ n_result = NotRun
    /\ n_result' = PyStr(normalize_underlying(n_value))
    /\ UNCHANGED <<n_value, n_again, matchVars, ivVars, asmVars, pricingVars, extractVars>>

\* _normalize_underlying(result)
NormalizeAgain ==
    /\ n_result /= NotRun
    /\ n_again = NotRun
    /\ n_again' = PyStr(normalize_underlying(n_result))
    /\ UNCHANGED <<n_value, n_result, matchVars, ivVars, asmVars, pricingVars, extractVars>>

NextNormalize == Normalize \/ NormalizeAgain

SpecNormalize == InitNormalize /\ [][NextNormalize]_vars

\* empty, or made of whitespace only
IsBlank(str) == \A i \in 1..Len(str) : str[i] \in Whitespace

\* C8: _normalize_underlying is idempotent: normalizing a result once more
\* returns that same result.
C8_Idempotent == n_again /= NotRun => n_again = n_result

\* C8 witness: an alias spelling was rewritten to its canonical token and the
\* token was normalized again.
C8_Witness ==
    /\ n_again /= NotRun
    /\ n_value = PyStr(sNIFTY \o sSP \o s50)
    /\ n_result = PyStr(sNIFTY)

\* C9: _normalize_underlying returns a string for every input, and the empty
\* string exactly when the input is None, empty or whitespace-only.
C9_EmptyIffBlank ==
    n_result /= NotRun =>
        /\ IsStr(n_result)
        /\ (n_result.s = <<>>) <=> (~IsStr(n_value) \/ IsBlank(n_value.s))

\* C9 witness: a non-empty input made of whitespace only was normalized to "".
C9_Witness ==
    /\ n_result = PyStr(<<>>)
    /\ IsStr(n_value)
    /\ Len(n_value.s) >= 2
    /\ \E i \in 1..Len(n_value.s) : n_value.s[i] = "\t"

\* C16: every non-empty result of _normalize_underlying has no whitespace
\* character of any kind, leading, trailing or internal, and no lowercase
\* letter.
C16_NoWhitespaceNoLowercase ==
    n_result /= NotRun =>
        \A i \in 1..Len(n_result.s) :
            /\ n_result.s[i] \notin Whitespace
            /\ n_result.s[i] \notin DOMAIN LowerToUpper

\* the input with every whitespace character removed
RemoveWhitespace(str) == SelectSeq(str, LAMBDA ch : ch \notin Whitespace)

\* C17: the result is the canonical value of the trimmed uppercase input when
\* that is an alias key; otherwise the canonical value of the input with all
\* internal whitespace removed when that is a key; otherwise the
\* whitespace-removed uppercase input itself.
C17_ThreeStepsInOrder ==
    (n_result /= NotRun /\ IsStr(n_value)) =>
        LET trimmed == Upper(Strip(n_value.s))
            removed == RemoveWhitespace(trimmed)
        IN  n_result.s = IF trimmed \in AliasKeys THEN UNDERLYING_ALIASES[trimmed]
                         ELSE IF removed \in AliasKeys THEN UNDERLYING_ALIASES[removed]
                         ELSE removed

(***************************************************************************)
(* _to_int, _to_float, _to_date                                            *)
(***************************************************************************)
SCALE == 1000 * 1000        \* fixed-point units per 1.0

DigitSeq == <<"0", "1", "2", "3", "4", "5", "6", "7", "8", "9">>
DigitVal(c) == (CHOOSE i \in 1..10 : DigitSeq[i] = c) - 1

IsDigits(str) == Len(str) > 0 /\ \A i \in 1..Len(str) : str[i] \in Digits

RECURSIVE DigitsValue(_)
DigitsValue(str) ==
    IF str = <<>> THEN 0
    ELSE 10 * DigitsValue(SubSeq(str, 1, Len(str) - 1)) + DigitVal(str[Len(str)])

\* int(value) succeeds on an int, a float (truncation) and on a string of
\* digits (surrounding whitespace allowed); TypeError/ValueError otherwise
IntOk(v) ==
    \/ v.t \in {"int", "float"}
    \/ v.t = "str" /\ IsDigits(Strip(v.s)) /\ Len(Strip(v.s)) <= 6

\* int(value) raises OverflowError, which _to_int does not catch
IntOverflows(v) == v.t = "inf"

to_int(v) ==
    IF ~IntOk(v) THEN 0
    ELSE IF v.t = "int" THEN v.n
    ELSE IF v.t = "float" THEN v.n \div SCALE
    ELSE DigitsValue(Strip(v.s))

\* float(value), in fixed-point units
FloatOk(v) ==
    \/ v.t \in {"int", "float"}
    \/ v.t = "str" /\ IsDigits(Strip(v.s)) /\ Len(Strip(v.s)) <= 3

FloatOf(v) ==
    IF v.t = "int" THEN v.n * SCALE
    ELSE IF v.t = "float" THEN v.n
    ELSE DigitsValue(Strip(v.s)) * SCALE

to_float(v) == IF FloatOk(v) THEN FloatOf(v) ELSE 0

IsLeap(y) == (y % 4 = 0) /\ ((y % 100 /= 0) \/ (y % 400 = 0))
DaysBeforeMonth == <<0, 31, 59, 90, 120, 151, 181, 212, 243, 273, 304, 334>>
DaysInMonth(y, m) ==
    IF m = 2 THEN (IF IsLeap(y) THEN 29 ELSE 28)
    ELSE IF m \in {4, 6, 9, 11} THEN 30 ELSE 31

\* date(y, m, d).toordinal()
Ordinal(y, m, d) ==
    365 * (y - 1) + ((y - 1) \div 4) - ((y - 1) \div 100) + ((y - 1) \div 400)
    + DaysBeforeMonth[m] + (IF m > 2 /\ IsLeap(y) THEN 1 ELSE 0) + d

\* datetime.strptime(str, "%Y-%m-%d"): the fields, or <<>> on ValueError
ParseYMD(str) ==
    LET dashes == {i \in 1..Len(str) : str[i] = "-"}
    IN  IF Cardinality(dashes) /= 2 THEN <<>>
        ELSE LET p1 == CHOOSE i \in dashes : \A j \in dashes : i <= j
                 p2 == CHOOSE i \in dashes : \A j \in dashes : i >= j
                 ys == SubSeq(str, 1, p1 - 1)
                 ms == SubSeq(str, p1 + 1, p2 - 1)
                 ds == SubSeq(str, p2 + 1, Len(str))
             IN  IF ~(IsDigits(ys) /\ Len(ys) = 4 /\ IsDigits(ms) /\ Len(ms) <= 2
                      /\ IsDigits(ds) /\ Len(ds) <= 2) THEN <<>>
                 ELSE LET y == DigitsValue(ys)
                          m == DigitsValue(ms)
                          d == DigitsValue(ds)
                      IN  IF y >= 1 /\ m \in 1..12 /\ d >= 1 /\ d <= DaysInMonth(y, m)
                          THEN <<y, m, d>> ELSE <<>>

\* date.today()
Today == Ordinal(2025, 12, 15)

\* _to_date(value): a date ordinal
to_date(v) ==
    IF v.t = "date" THEN v.n
    ELSE IF v.t = "str" /\ ParseYMD(v.s) /= <<>>
         THEN LET f == ParseYMD(v.s) IN Ordinal(f[1], f[2], f[3])
         ELSE Today

(***************************************************************************)
(* _extract_underlying_candidates and filter_options_for_underlyings       *)
(***************************************************************************)
sNFO == <<"N", "F", "O">>
sNSE == <<"N", "S", "E">>
sCE == <<"C", "E">>
sPE == <<"P", "E">>
sFUT == <<"F", "U", "T">>
s25 == <<"2", "5">>

\* the letters of the strings used here
Letters ==
    { "A", "B", "C", "D", "E", "F", "G", "H", "I", "J", "K", "L", "M", "N",
      "O", "P", "Q", "R", "S", "T", "U", "V", "W", "X", "Y", "Z" }
        \cup DOMAIN LowerToUpper

\* a prefix that stops at the first character that is not a letter
PrefixAlphabeticRun(str) ==
    LET stops == {i \in 1..Len(str) : str[i] \notin Letters}
    IN  IF stops = {} THEN str
        ELSE SubSeq(str, 1, (CHOOSE i \in stops : \A j \in stops : i <= j) - 1)

\* the characters of str before its first digit
PrefixBeforeDigit(str) ==
    LET digs == {i \in 1..Len(str) : str[i] \in Digits}
    IN  IF digs = {} THEN str
        ELSE SubSeq(str, 1, (CHOOSE i \in digs : \A j \in digs : i <= j) - 1)

NameCandidates(inst) ==
    IF IsStr(inst.name) /\ Strip(inst.name.s) /= <<>>
       /\ normalize_underlying(inst.name) /= <<>>
    THEN {normalize_underlying(inst.name)} ELSE {}

PrefixCandidates(inst) ==
    IF IsStr(inst.tradingsymbol) /\ inst.tradingsymbol.s /= <<>>
       /\ PrefixBeforeDigit(inst.tradingsymbol.s) /= <<>>
       /\ NormalizeStr(PrefixBeforeDigit(inst.tradingsymbol.s)) /= <<>>
    THEN {NormalizeStr(PrefixBeforeDigit(inst.tradingsymbol.s))} ELSE {}

extract_underlying_candidates(inst) == NameCandidates(inst) \cup PrefixCandidates(inst)

(***************************************************************************)
(* Direct calls of _extract_underlying_candidates, on records whose        *)
(* trading symbol is None or a concatenation of at most MaxSymbolPieces    *)
(* pieces: letters, digits, a space and the punctuation of real symbols.   *)
(***************************************************************************)
MaxSymbolPieces == 3

SymbolPieces ==
    { sNIFTY, sBANK, <<"2", "5">>, <<"&">>, <<"-">>, sSP, <<"n">> }

RECURSIVE SymbolsUpTo(_)
SymbolsUpTo(k) ==
    IF k = 0 THEN {<<>>}
    ELSE LET P == SymbolsUpTo(k - 1) IN P \cup {p \o f : p \in P, f \in SymbolPieces}

ExtractNames == { PyNone, PyStr(sNIFTY), PyStr(sSP) }

InitExtract ==
    /\ IdleNormalize
    /\ IdleMatch
    /\ IdleSolver
    /\ IdleAssembler
    /\ IdlePricing
    /\ e_pc = "call"
    /\ e_inst \in [ name : ExtractNames,
                    tradingsymbol : {PyNone} \cup {PyStr(str) : str \in SymbolsUpTo(MaxSymbolPieces)} ]
    /\ e_prefix = PyNone
    /\ e_candidates = {}

\* candidates = _extract_underlying_candidates(inst); e_prefix is the local
\* prefix of lines 106-108, bound only when prefix_chars is not empty
Extract ==
    /\ e_pc = "call"
    /\ e_pc' = "done"
    /\ e_candidates' = extract_underlying_candidates(e_inst)
    /\ e_prefix' = IF /\ IsStr(e_inst.tradingsymbol)
                      /\ e_inst.tradingsymbol.s /= <<>>
                      /\ PrefixBeforeDigit(e_inst.tradingsymbol.s) /= <<>>
                   THEN PyStr(PrefixBeforeDigit(e_inst.tradingsymbol.s))
                   ELSE PyNone
    /\ UNCHANGED <<e_inst, normVars, matchVars, ivVars, asmVars, pricingVars>>

NextExtract == Extract

SpecExtract == InitExtract /\ [][NextExtract]_vars

\* the request trimmed and uppercased, without the alias table
NormalizedUnderlyingsNoAlias(underlyings) ==
    { Upper(Strip(underlyings[i].s)) :
        i \in {j \in 1..Len(underlyings) :
                 IsStr(underlyings[j]) /\ Strip(underlyings[j].s) /= <<>>} }

\* {_normalize_underlying(u) for u in underlyings if isinstance(u, str) and u.strip()}
NormalizedUnderlyings(underlyings) ==
    { normalize_underlying(underlyings[i]) :
        i \in {j \in 1..Len(underlyings) :
                 IsStr(underlyings[j]) /\ Strip(underlyings[j].s) /= <<>>} }

\* x or "": a falsy field becomes the empty string
OrEmpty(v) == IF IsStr(v) /\ v.s /= <<>> THEN v ELSE PyStr(<<>>)

\* lines 166 and 174: the two calls of _to_int that can raise
BuildRaises(inst) ==
    IntOverflows(inst.instrument_token) \/ IntOverflows(inst.lot_size)

\* OptionInstrument(...) built from a record and the matched underlying
OptionInstrument(inst, matched_underlying) ==
    [ fetch_date |-> Today,
      instrument_token |-> to_int(inst.instrument_token),
      underlying |-> matched_underlying,
      exchange |-> OrEmpty(inst.exchange),
      tradingsymbol |-> OrEmpty(inst.tradingsymbol),
      name |-> inst.name,
      strike |-> to_float(inst.strike),
      expiry |-> to_date(inst.expiry),
      instrument_type |-> inst.instrument_type,
      lot_size |-> to_int(inst.lot_size),
      tick_size |-> IF inst.tick_size /= PyNone
                    THEN PyFloat(to_float(inst.tick_size)) ELSE PyNone,
      segment |-> inst.segment ]

(***************************************************************************)
(* Inputs of the matcher                                                   *)
(***************************************************************************)
MaxCatalog == 2
MaxRequested == 2

\* a well-formed and a malformed set of the remaining fields
WellFormed ==
    [ instrument_token |-> PyInt(7), strike |-> PyFloat(100 * SCALE),
      expiry |-> PyStr(<<"2", "0", "2", "5", "-", "1", "2", "-", "2", "5">>),
      lot_size |-> PyStr(<<"5", "0">>), tick_size |-> PyFloat(50000),
      segment |-> PyStr(<<"N", "F", "O", "-", "O", "P", "T">>) ]

Malformed ==
    [ instrument_token |-> PyStr(<<"x">>), strike |-> PyNone,
      expiry |-> PyStr(<<"2", "0", "2", "5", "-", "0", "2", "-", "3", "0">>),
      lot_size |-> PyNone, tick_size |-> PyNone, segment |-> PyNone ]

\* (name, tradingsymbol, remaining fields) of the catalog records
Details ==
    { <<PyStr(sNIFTY), PyStr(sBANKNIFTY \o s25 \o sPE), WellFormed>>,
      <<PyNone, PyStr(sNIFTY \o s25 \o sCE), WellFormed>>,
      <<PyStr(<<"n", "i", "f", "t", "y", " ">> \o s50), PyStr(s25 \o sNIFTY), Malformed>>,
      <<PyStr(sSP), PyNone, Malformed>> }

\* (exchange, instrument_type) of the catalog records
ExchangeSides ==
    { <<PyStr(sNFO), PyStr(sCE)>>, <<PyStr(sNFO), PyStr(sPE)>>,
      <<PyStr(sNFO), PyStr(sFUT)>>, <<PyStr(sNSE), PyStr(sCE)>> }

\* a call on NIFTY whose instrument_token is an infinite float
InfiniteToken ==
    [ exchange |-> PyStr(sNFO), instrument_type |-> PyStr(sCE), name |-> PyStr(sNIFTY),
      tradingsymbol |-> PyStr(sNIFTY \o s25 \o sCE),
      instrument_token |-> PyInf, strike |-> WellFormed.strike,
      expiry |-> WellFormed.expiry, lot_size |-> WellFormed.lot_size,
      tick_size |-> WellFormed.tick_size, segment |-> WellFormed.segment ]

Records ==
    { [ exchange |-> es[1], instrument_type |-> es[2], name |-> dt[1],
        tradingsymbol |-> dt[2],
        instrument_token |-> dt[3].instrument_token, strike |-> dt[3].strike,
        expiry |-> dt[3].expiry, lot_size |-> dt[3].lot_size,
        tick_size |-> dt[3].tick_size, segment |-> dt[3].segment ] :
        es \in ExchangeSides, dt \in Details }
    \cup {InfiniteToken}

\* candidates = _extract_underlying_candidates(inst), for each record of the dump
Candidates == [inst \in Records |-> extract_underlying_candidates(inst)]

\* the loop's tests on one record: exchange, side, candidates, intersection
Common(inst, normalized) == Candidates[inst] \cap normalized

\* Retained without the test of instrument_type
RetainedAnySide(inst, normalized) ==
    /\ inst.exchange = PyStr(sNFO)
    /\ Candidates[inst] /= {}
    /\ Common(inst, normalized) /= {}

Retained(inst, normalized) ==
    /\ inst.exchange = PyStr(sNFO)
    /\ inst.instrument_type \in {PyStr(sCE), PyStr(sPE)}
    /\ Candidates[inst] /= {}
    /\ Common(inst, normalized) /= {}

RequestValues ==
    { PyStr(sNIFTY \o sSP \o s50), PyStr(<<"b", "a", "n", "k">> \o sNIFTY),
      PyStr(<<" ", "\t">>), PyStr(<<>>) }

\* other spellings of the first request value
AliasSpellings == { PyStr(sNIFTY \o s50), PyStr(sNIFTY) }

RECURSIVE SeqsUpTo(_, _)
SeqsUpTo(S, k) ==
    IF k = 0 THEN {<<>>}
    ELSE LET P == SeqsUpTo(S, k - 1) IN P \cup {Append(p, x) : p \in P, x \in S}

InitFilter ==
    /\ IdleNormalize
    /\ IdleSolver
    /\ IdleAssembler
    /\ IdlePricing
    /\ IdleExtract
    /\ m_pc = "start"
    /\ m_underlyings \in SeqsUpTo(RequestValues, MaxRequested)
                         \cup {<<u>> : u \in AliasSpellings}
    /\ m_normalized = {}
    /\ m_catalog = <<>>
    /\ m_results = <<>>
    /\ m_first = <<>>

\* FilterStart without the early return of lines 134-135
FilterStartNoEarlyReturn ==
    /\ m_pc = "start"
    /\ m_normalized' = NormalizedUnderlyings(m_underlyings)
    /\ m_pc' = "loop"
    /\ UNCHANGED <<m_underlyings, m_catalog, m_results, m_first, normVars, ivVars, asmVars, pricingVars, extractVars>>

\* lines 127-137: normalize the request; return [] when nothing valid was passed
FilterStart ==
    /\ m_pc = "start"
    /\ m_normalized' = NormalizedUnderlyings(m_underlyings)
    /\ m_pc' = IF NormalizedUnderlyings(m_underlyings) = {} THEN "done" ELSE "loop"
    /\ UNCHANGED <<m_underlyings, m_catalog, m_results, m_first, normVars, ivVars, asmVars, pricingVars, extractVars>>

\* an iteration that reports any candidate of the record, requested or not
FilterRecordAnyCandidate ==
    /\ m_pc = "loop"
    /\ Len(m_catalog) < MaxCatalog
    /\ \E inst \in Records :
        /\ m_catalog' = Append(m_catalog, inst)
        /\ IF ~Retained(inst, m_normalized)
           THEN UNCHANGED <<m_results, m_pc>>
           ELSE IF BuildRaises(inst)
           THEN m_pc' = "raised" /\ UNCHANGED m_results
           ELSE /\ \E matched_underlying \in Candidates[inst] :
                    m_results' = Append(m_results, OptionInstrument(inst, matched_underlying))
                /\ UNCHANGED m_pc
    /\ UNCHANGED <<m_underlyings, m_normalized, m_first, normVars, ivVars, asmVars, pricingVars, extractVars>>

\* lines 139-182: one iteration of the loop, on the next record of the dump
FilterRecord ==
    /\ m_pc = "loop"
    /\ Len(m_catalog) < MaxCatalog
    /\ \E inst \in Records :
        /\ m_catalog' = Append(m_catalog, inst)
        /\ IF ~Retained(inst, m_normalized)
           THEN UNCHANGED <<m_results, m_pc>>
           ELSE IF BuildRaises(inst)
           THEN m_pc' = "raised" /\ UNCHANGED m_results
           ELSE /\ \E matched_underlying \in Common(inst, m_normalized) :
                    m_results' = Append(m_results, OptionInstrument(inst, matched_underlying))
                /\ UNCHANGED m_pc
    /\ UNCHANGED <<m_underlyings, m_normalized, m_first, normVars, ivVars, asmVars, pricingVars, extractVars>>

\* line 184: the dump is exhausted, return results
FilterReturn ==
    /\ m_pc = "loop"
    /\ m_pc' = "done"
    /\ UNCHANGED <<m_underlyings, m_normalized, m_catalog, m_results, m_first, normVars, ivVars, asmVars, pricingVars, extractVars>>

NextFilter == FilterStart \/ FilterRecord \/ FilterReturn

SpecFilter == InitFilter /\ [][NextFilter]_vars

(***************************************************************************)
(* Two runs of filter_options_for_underlyings on the same dump and the     *)
(* same request                                                            *)
(***************************************************************************)
FirstRun == m_first = <<>>
FirstResults == m_first[1]
FirstCatalog == m_first[2]

\* the call is made again with the arguments of the run that has returned
FilterAgain ==
    /\ m_pc = "done"
    /\ FirstRun
    /\ m_catalog /= <<>>
    /\ m_first' = <<m_results, m_catalog>>
    /\ m_pc' = "start"
    /\ m_normalized' = {}
    /\ m_catalog' = <<>>
    /\ m_results' = <<>>
    /\ UNCHANGED <<m_underlyings, normVars, ivVars, asmVars, pricingVars, extractVars>>

\* lines 139-182 in the second run: the next record is that of the same dump
FilterRecordAgain ==
    /\ m_pc = "loop"
    /\ ~FirstRun
    /\ Len(m_catalog) < Len(FirstCatalog)
    /\ LET inst == FirstCatalog[Len(m_catalog) + 1]
       IN  /\ m_catalog' = Append(m_catalog, inst)
           /\ IF ~Retained(inst, m_normalized)
              THEN UNCHANGED <<m_results, m_pc>>
              ELSE IF BuildRaises(inst)
              THEN m_pc' = "raised" /\ UNCHANGED m_results
              ELSE /\ \E matched_underlying \in Common(inst, m_normalized) :
                       m_results' = Append(m_results, OptionInstrument(inst, matched_underlying))
                   /\ UNCHANGED m_pc
    /\ UNCHANGED <<m_underlyings, m_normalized, m_first, normVars, ivVars, asmVars, pricingVars, extractVars>>

\* line 184 in the second run: the same dump is exhausted
FilterReturnAgain ==
    /\ ~FirstRun
    /\ Len(m_catalog) = Len(FirstCatalog)
    /\ FilterReturn

NextFilterTwice ==
    \/ FilterStart
    \/ FirstRun /\ FilterRecord
    \/ FirstRun /\ FilterReturn
    \/ FilterAgain
    \/ FilterRecordAgain
    \/ FilterReturnAgain

SpecFilterTwice == InitFilter /\ [][NextFilterTwice]_vars

\* no element of the request is a string with a non-whitespace character
NothingRequested ==
    \A i \in 1..Len(m_underlyings) :
        ~IsStr(m_underlyings[i]) \/ IsBlank(m_underlyings[i].s)

\* C6: when the requested underlyings are empty after normalization (no
\* strings, or only empty/whitespace-only ones) the call returns the empty
\* list at once: no record of the catalog is iterated or matched.
C6_EmptyRequestReturnsEmpty ==
    (m_pc \in {"loop", "done"} /\ NothingRequested) =>
        (m_pc = "done" /\ m_results = <<>> /\ m_catalog = <<>>)

\* C6 witness: a request of a whitespace-only string and an empty string returned.
C6_Witness ==
    /\ m_pc = "done"
    /\ m_underlyings = <<PyStr(<<" ", "\t">>), PyStr(<<>>)>>
    /\ m_results = <<>>

\* the claim's test of one record against the normalized request
Qualifies(inst) ==
    /\ inst.exchange = PyStr(sNFO)
    /\ inst.instrument_type = PyStr(sCE) \/ inst.instrument_type = PyStr(sPE)
    /\ \/ NameCandidates(inst) \cap m_normalized /= {}
       \/ PrefixCandidates(inst) \cap m_normalized /= {}

\* the contract is the one built from this record
BuiltFrom(opt, inst) ==
    /\ opt.exchange = inst.exchange
    /\ opt.tradingsymbol = OrEmpty(inst.tradingsymbol)
    /\ opt.name = inst.name
    /\ opt.instrument_type = inst.instrument_type
    /\ opt.instrument_token = to_int(inst.instrument_token)

\* C7: the contracts returned are, in catalog order, exactly one per record
\* that is on NFO, has side CE or PE and has a candidate in the normalized
\* request; no other record yields a contract and no side is other than CE/PE.
C7_ExactlyTheQualifyingRecords ==
    m_pc \in {"loop", "done"} =>
        LET Q == SelectSeq(m_catalog, Qualifies)
        IN  /\ Len(m_results) = Len(Q)
            /\ \A i \in 1..Len(Q) :
                /\ BuiltFrom(m_results[i], Q[i])
                /\ m_results[i].instrument_type \in {PyStr(sCE), PyStr(sPE)}

\* C7 witness: of two records, the one whose two candidates both match the
\* request gave one contract and the wrong-side record gave none.
C7_Witness ==
    /\ m_pc = "done"
    /\ Len(m_catalog) = 2
    /\ Len(m_results) = 1
    /\ Cardinality(Common(m_catalog[1], m_normalized)) = 2
    /\ m_catalog[2].instrument_type = PyStr(sFUT)
    /\ Common(m_catalog[2], m_normalized) /= {}

(***************************************************************************)
(* Fixed-point arithmetic standing for Python floats: SCALE units per 1.0, *)
(* every intermediate value within 32 bits.  Mul and Div round as stated;  *)
(* Sqrt, Ln, Exp and Erf stand for math.sqrt, math.log, math.exp and       *)
(* math.erf and agree with them to a few units.                            *)
(***************************************************************************)
Abs(a) == IF a >= 0 THEN a ELSE -a
Max(a, b) == IF a >= b THEN a ELSE b
SameSign(a, b) == (a >= 0) <=> (b >= 0)

\* a * b for a, b >= 0, rounded to the nearest unit
MulPos(a, b) ==
    LET a1 == a \div 1000
        a0 == a % 1000
        b1 == b \div 1000
        b0 == b % 1000
    IN  a1 * b1 + ((a1 * b0 + a0 * b1 + ((a0 * b0 + 500000) \div 1000)) \div 1000)

Mul(a, b) == IF SameSign(a, b) THEN MulPos(Abs(a), Abs(b)) ELSE -MulPos(Abs(a), Abs(b))

\* the quotient saturates at Saturation (a float would hold the larger value;
\* every use below maps anything past it to the same result)
Saturation == 2000 * SCALE

\* k more decimal digits of r / b, for 0 <= r < b, appended to q
RECURSIVE DivDigits(_, _, _, _)
DivDigits(r, b, k, q) ==
    IF k = 0 THEN q
    ELSE DivDigits((r * 10) % b, b, k - 1, q * 10 + ((r * 10) \div b))

DivPos(a, b) ==
    IF a \div b >= 2000 THEN Saturation
    ELSE (a \div b) * SCALE + DivDigits(a % b, b, 6, 0)

\* a / b, truncated toward zero
Div(a, b) == IF SameSign(a, b) THEN DivPos(Abs(a), Abs(b)) ELSE -DivPos(Abs(a), Abs(b))

\* the integer square root of n, by bisection of [lo, hi]
RECURSIVE ISqrt(_, _, _)
ISqrt(n, lo, hi) ==
    IF lo >= hi THEN lo
    ELSE LET mid == (lo + hi + 1) \div 2
         IN  IF mid * mid <= n THEN ISqrt(n, mid, hi) ELSE ISqrt(n, lo, mid - 1)

NewtonSqrt(x, y) == (y + Div(x, y)) \div 2

\* math.sqrt(x), for 0 <= x <= 21.0
Sqrt(x) ==
    IF x <= 0 THEN 0
    ELSE LET y0 == Max(1, ISqrt(x * 100, 0, 46340) * 100)
         IN  NewtonSqrt(x, NewtonSqrt(x, y0))

LN2 == 693147

\* sum over k = i..7 of z^(2k+1) / (2k+1), with term = z^(2i+1), z2 = z^2
RECURSIVE AtanhSeries(_, _, _)
AtanhSeries(term, z2, i) ==
    IF i > 7 THEN 0
    ELSE (term \div (2 * i + 1)) + AtanhSeries(Mul(term, z2), z2, i + 1)

\* math.log(x) for x > 0: x is brought into [0.5, 2] by powers of two
RECURSIVE Ln(_)
Ln(x) ==
    IF x > 2 * SCALE THEN Ln(x \div 2) + LN2
    ELSE IF x < SCALE \div 2 THEN Ln(x * 2) - LN2
    ELSE LET z == Div(Abs(x - SCALE), x + SCALE)
             sum == 2 * AtanhSeries(z, Mul(z, z), 0)
         IN  IF x >= SCALE THEN sum ELSE -sum

\* sum over n = i..9 of y^n / n!, with term = y^(i-1) / (i-1)!
RECURSIVE ExpSeries(_, _, _)
ExpSeries(term, y, i) ==
    IF i > 9 THEN 0
    ELSE LET next == Mul(term, y) \div i
         IN  next + ExpSeries(next, y, i + 1)

\* math.exp(y): 0 below -15 (less than a unit), the series on [-0.5, 0.5],
\* the square of exp(y / 2) otherwise
RECURSIVE Exp(_)
Exp(y) ==
    IF y < -15 * SCALE THEN 0
    ELSE IF y > 7 * SCALE THEN Exp(7 * SCALE)
    ELSE IF Abs(y) <= SCALE \div 2 THEN SCALE + ExpSeries(SCALE, y, 1)
    ELSE LET h == Exp(y \div 2) IN Mul(h, h)

\* math.erf(x) for x >= 0 (Abramowitz-Stegun 7.1.26, |error| < 1.5e-7)
ErfPos(x) ==
    IF x >= 6 * SCALE THEN SCALE
    ELSE LET t == Div(SCALE, SCALE + Mul(327591, x))
             poly == Mul(t, 254830 + Mul(t, -284497 + Mul(t, 1421414
                        + Mul(t, -1453152 + Mul(t, 1061405)))))
         IN  SCALE - Mul(poly, Exp(-Mul(x, x)))

Erf(x) == IF x >= 0 THEN ErfPos(x) ELSE -ErfPos(-x)

INV_SQRT2 == 707107         \* 1 / math.sqrt(2.0)
INV_SQRT_2PI == 398942      \* 1 / math.sqrt(2.0 * math.pi)
HALF == SCALE \div 2

\* _norm_cdf(x) = 0.5 * (1.0 + math.erf(x / math.sqrt(2.0)))
norm_cdf(x) == (SCALE + Erf(Mul(x, INV_SQRT2))) \div 2

\* _norm_pdf(x) = (1.0 / math.sqrt(2.0 * math.pi)) * math.exp(-0.5 * x * x)
norm_pdf(x) ==
    IF Abs(x) >= 40 * SCALE THEN 0
    ELSE Mul(INV_SQRT_2PI, Exp(-Mul(HALF, Mul(x, x))))

(***************************************************************************)
(* _bs_price                                                               *)
(***************************************************************************)
bs_d1(S, K, T, r, q, sigma) ==
    Div(Ln(Div(S, K)) + Mul(r - q + Mul(HALF, Mul(sigma, sigma)), T),
        Mul(sigma, Sqrt(T)))

bs_d2(S, K, T, r, q, sigma) == bs_d1(S, K, T, r, q, sigma) - Mul(sigma, Sqrt(T))

\* the degenerate branch without its floor at zero
bs_priceUnfloored(S, K, T, r, q, sigma, opt_type) ==
    IF T <= 0 \/ sigma <= 0 \/ S <= 0 \/ K <= 0
    THEN IF opt_type = "C"
         THEN Mul(S, Exp(-Mul(q, T))) - Mul(K, Exp(-Mul(r, T)))
         ELSE Mul(K, Exp(-Mul(r, T))) - Mul(S, Exp(-Mul(q, T)))
    ELSE LET d1 == bs_d1(S, K, T, r, q, sigma)
             d2 == d1 - Mul(sigma, Sqrt(T))
         IN  IF opt_type = "C"
             THEN Mul(Mul(S, Exp(-Mul(q, T))), norm_cdf(d1))
                  - Mul(Mul(K, Exp(-Mul(r, T))), norm_cdf(d2))
             ELSE Mul(Mul(K, Exp(-Mul(r, T))), norm_cdf(-d2))
                  - Mul(Mul(S, Exp(-Mul(q, T))), norm_cdf(-d1))

\* opt_type is "C" or "P"
bs_price(S, K, T, r, q, sigma, opt_type) ==
    IF T <= 0 \/ sigma <= 0 \/ S <= 0 \/ K <= 0
    THEN IF opt_type = "C"
         THEN Max(0, Mul(S, Exp(-Mul(q, T))) - Mul(K, Exp(-Mul(r, T))))
         ELSE Max(0, Mul(K, Exp(-Mul(r, T))) - Mul(S, Exp(-Mul(q, T))))
    ELSE LET d1 == bs_d1(S, K, T, r, q, sigma)
             d2 == d1 - Mul(sigma, Sqrt(T))
         IN  IF opt_type = "C"
             THEN Mul(Mul(S, Exp(-Mul(q, T))), norm_cdf(d1))
                  - Mul(Mul(K, Exp(-Mul(r, T))), norm_cdf(d2))
             ELSE Mul(Mul(K, Exp(-Mul(r, T))), norm_cdf(-d2))
                  - Mul(Mul(S, Exp(-Mul(q, T))), norm_cdf(-d1))

(***************************************************************************)
(* _implied_volatility                                                     *)
(***************************************************************************)
TOL == 100                  \* tol = 1e-4
MAX_ITER == 100             \* max_iter
SIGMA_LOW == 100            \* low = 1e-4
SIGMA_HIGH == 5 * SCALE     \* high = 5.0

PriceAt(args, sigma) ==
    bs_price(args.S, args.K, args.T, args.r, args.q, sigma, args.opt_type)

\* the guard without its test of T
IVEnterNoTimeGuard ==
    /\ iv_pc = "call"
    /\ IF iv_args.price <= 0 \/ iv_args.S <= 0 \/ iv_args.K <= 0
       THEN /\ iv_ret' = PyNone
            /\ iv_pc' = "done"
            /\ UNCHANGED <<iv_low, iv_high>>
       ELSE /\ iv_low' = SIGMA_LOW
            /\ iv_high' = SIGMA_HIGH
            /\ iv_pc' = "loop"
            /\ UNCHANGED iv_ret
    /\ UNCHANGED <<iv_args, iv_iter, iv_evals, iv_sigma0, normVars, matchVars, asmVars, pricingVars, extractVars>>

\* lines 274-277: the guard, then the initial bracket
IVEnter ==
    /\ iv_pc = "call"
    /\ IF iv_args.price <= 0 \/ iv_args.T <= 0 \/ iv_args.S <= 0 \/ iv_args.K <= 0
       THEN /\ iv_ret' = PyNone
            /\ iv_pc' = "done"
            /\ UNCHANGED <<iv_low, iv_high>>
       ELSE /\ iv_low' = SIGMA_LOW
            /\ iv_high' = SIGMA_HIGH
            /\ iv_pc' = "loop"
            /\ UNCHANGED iv_ret
    /\ UNCHANGED <<iv_args, iv_iter, iv_evals, iv_sigma0, normVars, matchVars, asmVars, pricingVars, extractVars>>

\* one iteration that compares the signed difference with the tolerance
IVIterateOnSigned(mid, diff) ==
    /\ iv_iter' = iv_iter + 1
    /\ iv_evals' = iv_evals + 1
    /\ IF diff < TOL
       THEN /\ iv_ret' = PyFloat(mid)
            /\ iv_pc' = "done"
            /\ UNCHANGED <<iv_low, iv_high>>
       ELSE /\ iv_high' = mid /\ iv_low' = iv_low
            /\ UNCHANGED <<iv_ret, iv_pc>>

\* one iteration that moves the wrong bound
IVIterateOnSwapped(mid, diff) ==
    /\ iv_iter' = iv_iter + 1
    /\ iv_evals' = iv_evals + 1
    /\ IF Abs(diff) < TOL
       THEN /\ iv_ret' = PyFloat(mid)
            /\ iv_pc' = "done"
            /\ UNCHANGED <<iv_low, iv_high>>
       ELSE /\ IF diff > 0
               THEN iv_low' = mid /\ iv_high' = iv_high
               ELSE iv_high' = mid /\ iv_low' = iv_low
            /\ UNCHANGED <<iv_ret, iv_pc>>

\* lines 278-287: one iteration of the bisection
IVIterateOn(mid, diff) ==
    /\ iv_iter' = iv_iter + 1
    /\ iv_evals' = iv_evals + 1
    /\ IF Abs(diff) < TOL
       THEN /\ iv_ret' = PyFloat(mid)
            /\ iv_pc' = "done"
            /\ UNCHANGED <<iv_low, iv_high>>
       ELSE /\ IF diff > 0
               THEN iv_high' = mid /\ iv_low' = iv_low
               ELSE iv_low' = mid /\ iv_high' = iv_high
            /\ UNCHANGED <<iv_ret, iv_pc>>

\* a loop without its ceiling of max_iter iterations
IVIterateUnbounded ==
    /\ iv_pc = "loop"
    /\ LET mid == (iv_low + iv_high + 1) \div 2
       IN  IVIterateOn(mid, PriceAt(iv_args, mid) - iv_args.price)
    /\ UNCHANGED <<iv_args, iv_sigma0, normVars, matchVars, asmVars, pricingVars, extractVars>>

\* line 279: mid = 0.5 * (low + high) on the grid of 1e-6.  A tie rounds up,
\* as the float midpoint does at both ends of the bracket: from low just
\* under 5.0 the float midpoint is 5.0 itself, and from high just over 1e-4
\* it is high, never 1e-4.
Midpoint(low, high) == (low + high + 1) \div 2

IVIterate ==
    /\ iv_pc = "loop"
    /\ iv_iter < MAX_ITER
    /\ LET mid == Midpoint(iv_low, iv_high)
       IN  IVIterateOn(mid, PriceAt(iv_args, mid) - iv_args.price)
    /\ UNCHANGED <<iv_args, iv_sigma0, normVars, matchVars, asmVars, pricingVars, extractVars>>

\* a loop that ends by returning the midpoint of its last bracket
IVExhaustedLastMidpoint ==
    /\ iv_pc = "loop"
    /\ iv_iter = MAX_ITER
    /\ iv_ret' = PyFloat((iv_low + iv_high) \div 2)
    /\ iv_pc' = "done"
    /\ UNCHANGED <<iv_args, iv_low, iv_high, iv_iter, iv_evals, iv_sigma0,
                   normVars, matchVars, asmVars, pricingVars, extractVars>>

\* line 288: the loop ran max_iter times without a return
IVExhausted ==
    /\ iv_pc = "loop"
    /\ iv_iter = MAX_ITER
    /\ iv_ret' = PyNone
    /\ iv_pc' = "done"
    /\ UNCHANGED <<iv_args, iv_low, iv_high, iv_iter, iv_evals, iv_sigma0,
                   normVars, matchVars, asmVars, pricingVars, extractVars>>

(***************************************************************************)
(* Inputs of the solver: spot, strike, time, rates and side from small     *)
(* sets; the price is either given or generated by _bs_price at sigma0.    *)
(***************************************************************************)
DAY == SCALE \div 365       \* one day in years, 1 / 365.0

SpotValues == {10 * SCALE, 0}
StrikeValues == {9 * SCALE, 10 * SCALE, 11 * SCALE, 20 * SCALE, -SCALE}
TimeValues == {7 * DAY, 30 * DAY, SCALE, 0}
RateValues == {70000}
YieldValues == {0, 20000}
GivenPrices == {0, -SCALE, HALF, 50 * SCALE}
Sigma0Values == {50000, 200000, 500000, 2 * SCALE}

SolverArgs(price, S, K, T, r, q, opt_type) ==
    [price |-> price, S |-> S, K |-> K, T |-> T, r |-> r, q |-> q, opt_type |-> opt_type]

InitSolver ==
    /\ IdleNormalize
    /\ IdleMatch
    /\ IdleAssembler
    /\ IdlePricing
    /\ IdleExtract
    /\ iv_pc = "call"
    /\ \E S \in SpotValues, K \in StrikeValues, T \in TimeValues,
          r \in RateValues, q \in YieldValues, opt_type \in {"C", "P"} :
          \/ \E price \in GivenPrices :
                /\ iv_args = SolverArgs(price, S, K, T, r, q, opt_type)
                /\ iv_sigma0 = 0
          \/ \E sigma0 \in Sigma0Values :
                /\ S > 0 /\ K > 0 /\ T > 0
                /\ iv_args = SolverArgs(bs_price(S, K, T, r, q, sigma0, opt_type),
                                        S, K, T, r, q, opt_type)
                /\ iv_sigma0 = sigma0
          \/ /\ S > 0 /\ K > 0 /\ T > 0
             /\ iv_args = SolverArgs(bs_price(S, K, T, r, q, SIGMA_HIGH, opt_type) + TOL - 1,
                                     S, K, T, r, q, opt_type)
             /\ iv_sigma0 = 0
    /\ iv_low = 0
    /\ iv_high = 0
    /\ iv_iter = 0
    /\ iv_evals = 0
    /\ iv_ret = NotRun

NextSolver == IVEnter \/ IVIterate \/ IVExhausted

SpecSolver == InitSolver /\ [][NextSolver]_vars

\* a call that has started keeps running, the function being sequential code:
\* while it has not returned, its next statement is eventually executed.
\* Every step of NextSolver changes iv_pc or iv_iter and one is possible
\* exactly while iv_pc is "call" or "loop".
SolverProgress ==
    /\ iv_pc \in {"call", "loop"}
    /\ iv_pc' \in {"loop", "done"}
    /\ iv_iter' \in {iv_iter, iv_iter + 1}
    /\ <<iv_pc', iv_iter'>> /= <<iv_pc, iv_iter>>

SpecSolverFair == SpecSolver /\ WF_<<iv_pc, iv_iter>>(SolverProgress)

(***************************************************************************)
(* _bs_greeks                                                              *)
(***************************************************************************)
\* a guard that still reports a delta
NoGreeksButDelta ==
    [delta |-> PyFloat(0), gamma |-> PyNone, theta |-> PyNone, vega |-> PyNone]

NoGreeks == [delta |-> PyNone, gamma |-> PyNone, theta |-> PyNone, vega |-> PyNone]

bs_greeks(S, K, T, r, q, sigma, opt_type) ==
    IF T <= 0 \/ sigma <= 0 \/ S <= 0 \/ K <= 0 THEN NoGreeks
    ELSE LET d1 == bs_d1(S, K, T, r, q, sigma)
             d2 == bs_d2(S, K, T, r, q, sigma)
             Nd1 == norm_cdf(d1)
             pdf_d1 == norm_pdf(d1)
             disc_q == Exp(-Mul(q, T))
             disc_r == Exp(-Mul(r, T))
             decay == Div(Mul(Mul(Mul(S, disc_q), pdf_d1), sigma), 2 * Sqrt(T))
             delta == IF opt_type = "C" THEN Mul(disc_q, Nd1)
                      ELSE Mul(disc_q, Nd1 - SCALE)
             theta == IF opt_type = "C"
                      THEN - decay - Mul(Mul(Mul(r, K), disc_r), norm_cdf(d2))
                           + Mul(Mul(Mul(q, S), disc_q), Nd1)
                      ELSE - decay + Mul(Mul(Mul(r, K), disc_r), norm_cdf(-d2))
                           - Mul(Mul(Mul(q, S), disc_q), norm_cdf(-d1))
             gamma == Div(Mul(disc_q, pdf_d1), Mul(Mul(S, sigma), Sqrt(T)))
             vega == Mul(Mul(Mul(S, disc_q), pdf_d1), Sqrt(T))
         IN  [ delta |-> PyFloat(delta), gamma |-> PyFloat(gamma),
               theta |-> PyFloat(theta), vega |-> PyFloat(vega) ]

(***************************************************************************)
(* Direct calls of _bs_price and _bs_greeks on the same arguments, drawn   *)
(* from small sets that include zero and negative values of S, K, T and    *)
(* sigma.                                                                  *)
(***************************************************************************)
PricingSpots == {10 * SCALE, 0, -SCALE}
PricingStrikes == {9 * SCALE, 10 * SCALE, 11 * SCALE, 0}
PricingTimes == {0, 7 * DAY, SCALE, -DAY}
PricingSigmas == {0, -200000, 200000, SCALE, 5 * SCALE}

InitPricing ==
    /\ IdleNormalize
    /\ IdleMatch
    /\ IdleSolver
    /\ IdleAssembler
    /\ IdleExtract
    /\ p_pc = "call"
    /\ p_args \in [S : PricingSpots, K : PricingStrikes, T : PricingTimes,
                   r : RateValues, q : YieldValues, sigma : PricingSigmas,
                   opt_type : {"C", "P"}]
    /\ p_price = NotRun
    /\ p_greeks = NotRun

\* price = _bs_price(S, K, T, r, q, sigma, opt_type)
PriceCall ==
    /\ p_pc = "call"
    /\ p_price' = PyFloat(bs_price(p_args.S, p_args.K, p_args.T, p_args.r,
                                   p_args.q, p_args.sigma, p_args.opt_type))
    /\ p_pc' = "priced"
    /\ UNCHANGED <<p_args, p_greeks, normVars, matchVars, ivVars, asmVars, extractVars>>

\* greeks = _bs_greeks(S, K, T, r, q, sigma, opt_type)
GreeksCall ==
    /\ p_pc = "priced"
    /\ p_greeks' = bs_greeks(p_args.S, p_args.K, p_args.T, p_args.r,
                             p_args.q, p_args.sigma, p_args.opt_type)
    /\ p_pc' = "done"
    /\ UNCHANGED <<p_args, p_price, normVars, matchVars, ivVars, asmVars, extractVars>>

NextPricing == PriceCall \/ GreeksCall

SpecPricing == InitPricing /\ [][NextPricing]_vars

(***************************************************************************)
(* _years_to_expiry and INDEX_SPOT_SYMBOL                                  *)
(***************************************************************************)
\* datetime.utcnow().date()
Now == Today

\* the date of the expiry: an ordinal, or the exception raised
ExpiryDate(expiry) ==
    IF expiry.t = "date" THEN [ok |-> TRUE, n |-> expiry.n, error |-> ""]
    ELSE IF expiry.t = "str"
         THEN LET f == ParseYMD(SubSeq(expiry.s, 1, IF Len(expiry.s) < 10 THEN Len(expiry.s) ELSE 10))
              IN  IF f /= <<>>
                  THEN [ok |-> TRUE, n |-> Ordinal(f[1], f[2], f[3]), error |-> ""]
                  ELSE [ok |-> FALSE, n |-> 0, error |-> "ValueError"]
         ELSE [ok |-> FALSE, n |-> 0, error |-> "TypeError"]

\* max(days, 0) / 365.0
years_to_expiry(expiry_date, as_of) ==
    (Max(expiry_date - as_of, 0) * SCALE + 182) \div 365

sNSEColon == <<"N", "S", "E", ":">>

INDEX_SPOT_SYMBOL(u) ==
    IF u = sNIFTY THEN sNSEColon \o sNIFTY \o sSP \o s50
    ELSE IF u = sBANKNIFTY THEN sNSEColon \o sNIFTY \o sSP \o sBANK
    ELSE IF u = sFINNIFTY THEN sNSEColon \o sNIFTY \o sSP \o sFIN \o sSP \o sSERVICE
    ELSE sNSEColon \o u

\* the characters of the symbols in code-point order, for sorted()
CodePoints ==
    <<"\t", " ", "0", "1", "2", "3", "4", "5", "6", "7", "8", "9", ":",
      "A", "B", "C", "D", "E", "F", "G", "H", "I", "J", "K", "L", "M",
      "N", "O", "P", "Q", "R", "S", "T", "U", "V", "W", "X", "Y", "Z">>

Rank(c) == CHOOSE i \in 1..Len(CodePoints) : CodePoints[i] = c

RECURSIVE StrLess(_, _)
StrLess(a, b) ==
    IF a = <<>> THEN b /= <<>>
    ELSE IF b = <<>> THEN FALSE
    ELSE IF a[1] = b[1] THEN StrLess(Tail(a), Tail(b))
    ELSE Rank(a[1]) < Rank(b[1])

RECURSIVE Sorted(_)
Sorted(S) ==
    IF S = {} THEN <<>>
    ELSE LET m == CHOOSE x \in S : \A y \in S \ {x} : StrLess(x, y)
         IN  <<m>> \o Sorted(S \ {m})

(***************************************************************************)
(* build_option_data_snapshot: values of the quote and spot responses      *)
(***************************************************************************)
RISK_FREE_RATE == 70000     \* risk_free_rate = 0.07
LOGGED_FIRST == 3           \* the quotes of the first 3 snapshots are logged

\* bool(v)
Truthy(v) ==
    IF v.t = "none" THEN FALSE
    ELSE IF v.t = "str" THEN v.s /= <<>>
    ELSE IF v.t \in {"int", "float"} THEN v.n /= 0
    ELSE TRUE

\* an int(v) whose failure gives 0
IntOrZero(v) == IF IntOk(v) THEN PyInt(to_int(v)) ELSE PyInt(0)

\* float(v) and int(v) inside try/except (ValueError, TypeError): None on failure
FloatOrNone(v) == IF FloatOk(v) THEN PyFloat(FloatOf(v)) ELSE PyNone
IntOrNone(v) == IF IntOk(v) THEN PyInt(to_int(v)) ELSE PyNone

\* the exception float(v) raises outside a try
FloatError(v) == IF v.t = "str" THEN "ValueError" ELSE "TypeError"

\* one side of the depth: kind "none" (missing, None or an empty list),
\* "entry" (a list whose first element is a dict) or "other"
NoLevel == [kind |-> "none", price |-> PyNone, quantity |-> PyNone]
Entry(price, quantity) == [kind |-> "entry", price |-> price, quantity |-> quantity]

\* the depth of a quote: kind "none" (missing, None or {}) or "dict"
NoDepth == [kind |-> "none", buy |-> NoLevel, sell |-> NoLevel]
Depth(buy, sell) == [kind |-> "dict", buy |-> buy, sell |-> sell]

\* an entry of the quote response: kind "absent" (no entry, or None),
\* "empty" ({}), "other" (a truthy value that is not a dict) or "dict"
QuoteOfKind(kind) ==
    [kind |-> kind, last_price |-> PyNone, depth |-> NoDepth,
     volume |-> PyNone, oi |-> PyNone]
Quote(last_price, depth, volume, oi) ==
    [kind |-> "dict", last_price |-> last_price, depth |-> depth,
     volume |-> volume, oi |-> oi]

\* an entry of the spot response: kind "absent", or a dict with last_price
NoLtp == [kind |-> "absent", last_price |-> PyNone]
Ltp(last_price) == [kind |-> "dict", last_price |-> last_price]

\* the spot of one underlying, 0.0 when the response has no price
ResolveSpotZero(ltp_resp, u) ==
    LET data == ltp_resp[INDEX_SPOT_SYMBOL(u)]
    IN  IF data.kind = "dict" /\ FloatOk(data.last_price)
        THEN PyFloat(FloatOf(data.last_price)) ELSE PyFloat(0)

\* lines 353-362: the spot of one underlying
ResolveSpot(ltp_resp, u) ==
    LET data == ltp_resp[INDEX_SPOT_SYMBOL(u)]
    IN  IF data.kind = "dict" THEN FloatOrNone(data.last_price) ELSE PyNone

\* f"{inst.exchange}:{inst.tradingsymbol}"
KeyOf(inst) == inst.exchange \o <<":">> \o inst.tradingsymbol

\* lines 378-438: the fields read from a quote that is a dict
Extracted(q) ==
    LET buy == q.depth.buy
        sell == q.depth.sell
        dict == q.depth.kind = "dict"
    IN  [ last_price |-> q.last_price,
          bid_price |-> IF dict /\ buy.kind = "entry" THEN FloatOrNone(buy.price) ELSE PyNone,
          bid_qty |-> IF dict /\ buy.kind = "entry" THEN IntOrNone(buy.quantity) ELSE PyNone,
          ask_price |-> IF dict /\ sell.kind = "entry" THEN FloatOrNone(sell.price) ELSE PyNone,
          ask_qty |-> IF dict /\ sell.kind = "entry" THEN IntOrNone(sell.quantity) ELSE PyNone,
          volume |-> IntOrNone(q.volume),
          oi |-> IntOrNone(q.oi) ]

\* the IV block without the test of the spot
AnalysisIgnoringSpot(inst, spot, last_price) ==
    IF ~(Truthy(last_price) /\ Truthy(inst.expiry))
    THEN [kind |-> "none", error |-> "", T |-> 0]
    ELSE LET e == ExpiryDate(inst.expiry)
         IN  IF ~e.ok THEN [kind |-> "raise", error |-> e.error, T |-> 0]
             ELSE LET T == years_to_expiry(e.n, Now)
                  IN  IF T <= 0 THEN [kind |-> "none", error |-> "", T |-> T]
                      ELSE IF ~FloatOk(last_price)
                           THEN [kind |-> "raise", error |-> FloatError(last_price), T |-> T]
                      ELSE [kind |-> "solve", error |-> "", T |-> T]

\* lines 455-467: what the IV block does before the solver is called:
\* nothing ("none"), an exception ("raise"), or the call ("solve")
Analysis(inst, spot, last_price) ==
    IF ~(Truthy(spot) /\ Truthy(last_price) /\ Truthy(inst.expiry))
    THEN [kind |-> "none", error |-> "", T |-> 0]
    ELSE LET e == ExpiryDate(inst.expiry)
         IN  IF ~e.ok THEN [kind |-> "raise", error |-> e.error, T |-> 0]
             ELSE LET T == years_to_expiry(e.n, Now)
                  IN  IF T <= 0 THEN [kind |-> "none", error |-> "", T |-> T]
                      ELSE IF ~FloatOk(last_price)
                           THEN [kind |-> "raise", error |-> FloatError(last_price), T |-> T]
                      ELSE IF ~FloatOk(inst.strike)
                           THEN [kind |-> "raise", error |-> FloatError(inst.strike), T |-> T]
                      ELSE [kind |-> "solve", error |-> "", T |-> T]

\* lines 485-501: OptionData(...)
OptionData(inst, spot, x, iv, g) ==
    [ option_instrument_id |-> inst.instrument_token,
      snapshot_time |-> Now,
      underlying_price |-> spot,
      last_price |-> x.last_price,
      bid_price |-> x.bid_price,
      bid_qty |-> x.bid_qty,
      ask_price |-> x.ask_price,
      ask_qty |-> x.ask_qty,
      volume |-> x.volume,
      open_interest |-> x.oi,
      implied_volatility |-> iv,
      delta |-> g.delta,
      gamma |-> g.gamma,
      theta |-> g.theta,
      vega |-> g.vega ]

\* what happened to the instrument at position index of the batch: skipped,
\* or emitted as results[at]; what the solver returned and the volatility
\* the Greeks were computed at, NotRun when they were not called
Traced(index, at, solver, greeks) ==
    [index |-> index, emitted |-> at > 0, at |-> at, solver |-> solver, greeks |-> greeks]

(***************************************************************************)
(* Inputs of build_option_data_snapshot: the batch, and what the two       *)
(* fetches answer for each symbol                                          *)
(***************************************************************************)
MaxBatch == 2

sABC == <<"a", "b", "c">>
sNA == <<"n", "/", "a">>

Contract(instrument_token, underlying, tradingsymbol, strike, expiry, instrument_type) ==
    [ instrument_token |-> instrument_token, underlying |-> underlying,
      exchange |-> sNFO, tradingsymbol |-> tradingsymbol, strike |-> strike,
      expiry |-> expiry, instrument_type |-> instrument_type ]

\* a call expiring in 30 days, an expired put, a put whose expiry is an ISO
\* string 30 days ahead, and a call whose expiry string is not a date
Contracts ==
    { Contract(1, sNIFTY, sNIFTY \o s25 \o sCE, PyFloat(10 * SCALE), PyDate(Today + 30), sCE),
      Contract(2, sNIFTY, sNIFTY \o s25 \o sPE, PyFloat(11 * SCALE), PyDate(Today - 1), sPE),
      Contract(3, sBANK, sBANK \o s25 \o sPE, PyFloat(9 * SCALE),
               PyStr(<<"2", "0", "2", "6", "-", "0", "1", "-", "1", "4">>), sPE),
      Contract(4, sBANK, sBANK \o s25 \o sCE, PyFloat(10 * SCALE), PyStr(sABC), sCE) }

FullDepth == Depth(Entry(PyFloat(250000), PyInt(50)), Entry(PyFloat(270000), PyInt(0)))
PoorDepth == Depth(NoLevel, Entry(PyStr(sNA), PyFloat(2500000)))

QuoteValues ==
    { QuoteOfKind("absent"),
      QuoteOfKind("empty"),
      QuoteOfKind("other"),
      Quote(PyFloat(260000), FullDepth, PyInt(0), PyInt(1000)),
      Quote(PyFloat(10000), PoorDepth, PyStr(sNA), PyNone),
      Quote(PyNone, FullDepth, PyInt(5), PyNone),
      Quote(PyFloat(260000), NoDepth, PyInt(5), PyInt(7)),
      Quote(PyStr(sABC), FullDepth, PyInt(5), PyInt(7)),
      Quote(PyInt(0), FullDepth, PyFloat(400000), PyStr(<<"7">>)) }

LtpValues == { NoLtp, Ltp(PyFloat(10 * SCALE)), Ltp(PyStr(sNA)) }

(***************************************************************************)
(* build_option_data_snapshot: the call                                    *)
(***************************************************************************)
\* the steps of the call leave the normalizer and the matcher alone
AsmFrame == UNCHANGED <<normVars, matchVars, pricingVars, extractVars>>
SolverIdle == UNCHANGED ivVars

\* the set of the elements of a sequence
Range(seq) == {seq[i] : i \in 1..Len(seq)}

\* underlyings = sorted({inst.underlying for inst in option_instruments})
Underlyings(instruments) == Sorted({inst.underlying : inst \in Range(instruments)})

\* lines 339-340: an empty batch returns [] before any fetch
AsmReturnEmpty ==
    /\ a_instruments = <<>>
    /\ a_pc' = "done"
    /\ a_outcome' = "returned"
    /\ UNCHANGED <<a_instruments, a_ltp, a_quotes, a_spot, a_i, a_cur,
                   a_depth_bound, a_results, a_fetches, a_trace>>

\* a fetch that asks for the spot once per contract
AsmFetchPerContract(ltp_resp, quotes) ==
    LET underlyings == Underlyings(a_instruments)
        underlying_symbols == [i \in 1..Len(a_instruments) |->
                                  INDEX_SPOT_SYMBOL(a_instruments[i].underlying)]
        option_symbols == [i \in 1..Len(a_instruments) |-> KeyOf(a_instruments[i])]
    IN  /\ a_instruments /= <<>>
        /\ a_ltp' = ltp_resp
        /\ a_quotes' = quotes
        /\ a_spot' = [u \in Range(underlyings) |-> ResolveSpot(ltp_resp, u)]
        /\ a_fetches' = << [call |-> "fetch_ltp_bulk", symbols |-> underlying_symbols],
                           [call |-> "fetch_quote_bulk", symbols |-> option_symbols] >>
        /\ a_pc' = "loop"
        /\ a_i' = 1
        /\ UNCHANGED <<a_instruments, a_cur, a_depth_bound, a_results, a_outcome, a_trace>>

\* lines 342-369: the two fetches and the spot of every underlying
AsmFetch(ltp_resp, quotes) ==
    LET underlyings == Underlyings(a_instruments)
        underlying_symbols == [i \in 1..Len(underlyings) |-> INDEX_SPOT_SYMBOL(underlyings[i])]
        option_symbols == [i \in 1..Len(a_instruments) |-> KeyOf(a_instruments[i])]
    IN  /\ a_instruments /= <<>>
        /\ a_ltp' = ltp_resp
        /\ a_quotes' = quotes
        /\ a_spot' = [u \in Range(underlyings) |-> ResolveSpot(ltp_resp, u)]
        /\ a_fetches' = << [call |-> "fetch_ltp_bulk", symbols |-> underlying_symbols],
                           [call |-> "fetch_quote_bulk", symbols |-> option_symbols] >>
        /\ a_pc' = "loop"
        /\ a_i' = 1
        /\ UNCHANGED <<a_instruments, a_cur, a_depth_bound, a_results, a_outcome, a_trace>>

\* line 375: continue
AsmSkip ==
    /\ a_i' = a_i + 1
    /\ a_trace' = Append(a_trace, Traced(a_i, 0, NotRun, NotRun))
    /\ UNCHANGED <<a_pc, a_instruments, a_ltp, a_quotes, a_spot, a_cur,
                   a_depth_bound, a_results, a_outcome, a_fetches>>

\* an exception leaves the loop and the call
AsmRaise(error, bound) ==
    /\ a_pc' = "done"
    /\ a_outcome' = error
    /\ a_depth_bound' = bound
    /\ UNCHANGED <<a_instruments, a_ltp, a_quotes, a_spot, a_i, a_cur,
                   a_results, a_fetches, a_trace>>

\* an emission that puts the snapshot at the head of the list
AsmEmitAtHead(od, solver, greeks, bound) ==
    /\ a_results' = <<od>> \o a_results
    /\ a_trace' = Append(a_trace, Traced(a_i, Len(a_results) + 1, solver, greeks))
    /\ a_i' = a_i + 1
    /\ a_pc' = "loop"
    /\ a_cur' = NoCur
    /\ a_depth_bound' = bound
    /\ UNCHANGED <<a_instruments, a_ltp, a_quotes, a_spot, a_outcome, a_fetches>>

\* lines 485-502: the snapshot is appended and the loop goes on
AsmEmit(od, solver, greeks, bound) ==
    /\ a_results' = Append(a_results, od)
    /\ a_trace' = Append(a_trace, Traced(a_i, Len(a_results) + 1, solver, greeks))
    /\ a_i' = a_i + 1
    /\ a_pc' = "loop"
    /\ a_cur' = NoCur
    /\ a_depth_bound' = bound
    /\ UNCHANGED <<a_instruments, a_ltp, a_quotes, a_spot, a_outcome, a_fetches>>

\* lines 459-467: the call of _implied_volatility
AsmSolve(args, spot, x, bound) ==
    /\ a_pc' = "solving"
    /\ a_cur' = [idle |-> FALSE, spot |-> spot, x |-> x]
    /\ a_depth_bound' = bound
    /\ iv_pc' = "call"
    /\ iv_args' = args
    /\ iv_low' = 0
    /\ iv_high' = 0
    /\ iv_iter' = 0
    /\ iv_evals' = 0
    /\ iv_ret' = NotRun
    /\ iv_sigma0' = 0
    /\ UNCHANGED <<a_instruments, a_ltp, a_quotes, a_spot, a_i, a_results,
                   a_outcome, a_fetches, a_trace>>

\* the quote of a key: quotes.get(key)
QuoteAt(quotes, key) == IF key \in DOMAIN quotes THEN quotes[key] ELSE QuoteOfKind("absent")

\* an iteration that skips a contract without last price at or past its expiry
AsmIterateSkippingExpired(bound_before) ==
    LET inst == a_instruments[a_i]
        q == QuoteAt(a_quotes, KeyOf(inst))
        e == ExpiryDate(inst.expiry)
    IN  IF q.kind \in {"absent", "empty"} THEN AsmSkip /\ SolverIdle
        ELSE IF q.kind = "other" THEN AsmRaise("AttributeError", bound_before) /\ SolverIdle
        ELSE IF q.last_price = PyNone /\ e.ok /\ years_to_expiry(e.n, Now) <= 0
             THEN AsmSkip /\ SolverIdle
        ELSE LET spot == a_spot[inst.underlying]
                 x == Extracted(q)
                 bound == bound_before \/ q.depth.kind = "dict"
                 plan == Analysis(inst, spot, x.last_price)
             IN  IF Len(a_results) < LOGGED_FIRST /\ ~bound
                 THEN AsmRaise("UnboundLocalError", bound) /\ SolverIdle
                 ELSE IF plan.kind = "raise"
                      THEN AsmRaise(plan.error, bound) /\ SolverIdle
                 ELSE IF plan.kind = "solve"
                      THEN AsmSolve(SolverArgs(FloatOf(x.last_price), FloatOf(spot),
                                               FloatOf(inst.strike), plan.T,
                                               RISK_FREE_RATE, 0,
                                               IF inst.instrument_type = sCE THEN "C" ELSE "P"),
                                    spot, x, bound)
                 ELSE AsmEmit(OptionData(inst, spot, x, PyNone, NoGreeks),
                              NotRun, NotRun, bound) /\ SolverIdle

\* lines 371-467: one iteration of the loop, up to the call of the solver
AsmIterate(bound_before) ==
    LET inst == a_instruments[a_i]
        q == QuoteAt(a_quotes, KeyOf(inst))
    IN  IF q.kind \in {"absent", "empty"} THEN AsmSkip /\ SolverIdle
        ELSE IF q.kind = "other" THEN AsmRaise("AttributeError", bound_before) /\ SolverIdle
        ELSE LET spot == a_spot[inst.underlying]
                 x == Extracted(q)
                 bound == bound_before \/ q.depth.kind = "dict"
                 plan == Analysis(inst, spot, x.last_price)
             IN  IF Len(a_results) < LOGGED_FIRST /\ ~bound
                 THEN AsmRaise("UnboundLocalError", bound) /\ SolverIdle
                 ELSE IF plan.kind = "raise"
                      THEN AsmRaise(plan.error, bound) /\ SolverIdle
                 ELSE IF plan.kind = "solve"
                      THEN AsmSolve(SolverArgs(FloatOf(x.last_price), FloatOf(spot),
                                               FloatOf(inst.strike), plan.T,
                                               RISK_FREE_RATE, 0,
                                               IF inst.instrument_type = sCE THEN "C" ELSE "P"),
                                    spot, x, bound)
                 ELSE AsmEmit(OptionData(inst, spot, x, PyNone, NoGreeks),
                              NotRun, NotRun, bound) /\ SolverIdle

AsmStart ==
    /\ a_pc = "start"
    /\ \/ AsmReturnEmpty
       \/ \E ltp_resp \in [{INDEX_SPOT_SYMBOL(inst.underlying) : inst \in Range(a_instruments)}
                              -> LtpValues],
             quotes \in [{KeyOf(inst) : inst \in Range(a_instruments)} -> QuoteValues] :
             AsmFetch(ltp_resp, quotes)
    /\ SolverIdle
    /\ AsmFrame

AsmInstrument ==
    /\ a_pc = "loop"
    /\ a_i <= Len(a_instruments)
    /\ AsmIterate(a_depth_bound)
    /\ AsmFrame

\* a return of the solver that records the volatility without the Greeks
AsmPricedWithoutGreeks ==
    /\ a_pc = "solving"
    /\ iv_pc = "done"
    /\ LET inst == a_instruments[a_i]
           g == NoGreeks
       IN  AsmEmit(OptionData(inst, a_cur.spot, a_cur.x,
                              IF Truthy(iv_ret) THEN iv_ret ELSE PyNone, g),
                   iv_ret, IF Truthy(iv_ret) THEN iv_ret ELSE NotRun, a_depth_bound)
    /\ iv_pc' = "idle"
    /\ iv_args' = NoArgs
    /\ iv_low' = 0
    /\ iv_high' = 0
    /\ iv_iter' = 0
    /\ iv_evals' = 0
    /\ iv_ret' = NotRun
    /\ iv_sigma0' = 0
    /\ AsmFrame

\* lines 468-502: the solver has returned; the Greeks when it found a volatility
AsmPriced ==
    /\ a_pc = "solving"
    /\ iv_pc = "done"
    /\ LET inst == a_instruments[a_i]
           g == IF Truthy(iv_ret)
                THEN bs_greeks(iv_args.S, iv_args.K, iv_args.T, iv_args.r, iv_args.q,
                               iv_ret.n, iv_args.opt_type)
                ELSE NoGreeks
       IN  AsmEmit(OptionData(inst, a_cur.spot, a_cur.x,
                              IF Truthy(iv_ret) THEN iv_ret ELSE PyNone, g),
                   iv_ret, IF Truthy(iv_ret) THEN iv_ret ELSE NotRun, a_depth_bound)
    /\ iv_pc' = "idle"
    /\ iv_args' = NoArgs
    /\ iv_low' = 0
    /\ iv_high' = 0
    /\ iv_iter' = 0
    /\ iv_evals' = 0
    /\ iv_ret' = NotRun
    /\ iv_sigma0' = 0
    /\ AsmFrame

\* line 504: return results
AsmReturn ==
    /\ a_pc = "loop"
    /\ a_i > Len(a_instruments)
    /\ a_pc' = "done"
    /\ a_outcome' = "returned"
    /\ UNCHANGED <<a_instruments, a_ltp, a_quotes, a_spot, a_i, a_cur,
                   a_depth_bound, a_results, a_fetches, a_trace>>
    /\ SolverIdle
    /\ AsmFrame

InitAssembler ==
    /\ IdleNormalize
    /\ IdleMatch
    /\ IdleSolver
    /\ IdlePricing
    /\ IdleExtract
    /\ a_pc = "start"
    /\ a_instruments \in SeqsUpTo(Contracts, MaxBatch)
    /\ a_ltp = <<>>
    /\ a_quotes = <<>>
    /\ a_spot = <<>>
    /\ a_i = 0
    /\ a_cur = NoCur
    /\ a_depth_bound = FALSE
    /\ a_results = <<>>
    /\ a_outcome = "running"
    /\ a_fetches = <<>>
    /\ a_trace = <<>>

Init == InitAssembler

Next ==
    \/ AsmStart
    \/ AsmInstrument
    \/ IVEnter
    \/ IVIterate
    \/ IVExhausted
    \/ AsmPriced
    \/ AsmReturn

Spec == Init /\ [][Next]_vars

CandidatesReturned == e_pc = "done"
Symbol == e_inst.tradingsymbol

\* the candidates other than the one of the name field
PrefixCandidateOf(str) ==
    IF str /= <<>> /\ NormalizeStr(str) /= <<>> THEN {NormalizeStr(str)} ELSE {}

SafeDefaults(opt, inst) ==
    /\ ~IntOk(inst.instrument_token) => opt.instrument_token = 0
    /\ ~IntOk(inst.lot_size) => opt.lot_size = 0
    /\ ~FloatOk(inst.strike) => opt.strike = 0
    /\ inst.tick_size = PyNone => opt.tick_size = PyNone
    /\ opt.expiry = IF inst.expiry.t = "date" THEN inst.expiry.n
                    ELSE IF inst.expiry.t = "str" /\ ParseYMD(inst.expiry.s) /= <<>>
                         THEN opt.expiry
                         ELSE Today

\* C19: building a contract from a matching record never raises on malformed
\* numeric fields: an uncoercible or missing strike, lot size or instrument
\* identifier becomes zero, a null tick size stays null, an unparsable expiry
\* becomes a date, and the record is still returned as a contract.
C19_MalformedFieldsNeverRaise ==
    /\ m_pc /= "raised"
    /\ m_pc \in {"loop", "done"} =>
          LET Q == SelectSeq(m_catalog, Qualifies)
          IN  /\ Len(m_results) = Len(Q)
              /\ \A i \in 1..Len(Q) : SafeDefaults(m_results[i], Q[i])

\* the request is one spelling of NIFTY: "NIFTY 50", "NIFTY50" or "NIFTY"
NiftySpellings == AliasSpellings \cup {PyStr(sNIFTY \o sSP \o s50)}
NiftyRequested == \E u \in NiftySpellings : m_underlyings = <<u>>

OptionRow(inst) ==
    /\ inst.exchange = PyStr(sNFO)
    /\ inst.instrument_type \in {PyStr(sCE), PyStr(sPE)}

\* the name is "NIFTY", or the trading symbol is NIFTY followed by a digit
NiftyRow(inst) ==
    \/ inst.name = PyStr(sNIFTY)
    \/ /\ IsStr(inst.tradingsymbol)
       /\ Len(inst.tradingsymbol.s) > Len(sNIFTY)
       /\ SubSeq(inst.tradingsymbol.s, 1, Len(sNIFTY)) = sNIFTY
       /\ inst.tradingsymbol.s[Len(sNIFTY) + 1] \in Digits

\* the contracts of a catalog on NIFTY, written without the request
NiftyContracts(catalog) ==
    LET Q == SelectSeq(catalog, LAMBDA inst : OptionRow(inst) /\ sNIFTY \in Candidates[inst])
    IN  [i \in 1..Len(Q) |-> OptionInstrument(Q[i], sNIFTY)]

\* C15: a request spelled "NIFTY 50", "NIFTY50" or "NIFTY" returns, for the
\* same catalog, the same contracts, and among them one for every call or
\* put record of NFO whose name is "NIFTY" or whose trading symbol starts
\* with NIFTY followed by a digit.
C15_AliasSpellingInvariant ==
    (m_pc = "done" /\ NiftyRequested) =>
        /\ m_results = NiftyContracts(m_catalog)
        /\ Len(m_results) >=
              Len(SelectSeq(m_catalog, LAMBDA inst : OptionRow(inst) /\ NiftyRow(inst)))

\* the request "NIFTY50" kept a call named by its symbol and a put named NIFTY
C15_Witness ==
    /\ m_pc = "done"
    /\ m_underlyings = <<PyStr(sNIFTY \o s50)>>
    /\ Len(m_results) = 2
    /\ m_results[1].instrument_type = PyStr(sCE)
    /\ m_results[1].name = PyNone
    /\ m_results[2].instrument_type = PyStr(sPE)
    /\ m_results[2].name = PyStr(sNIFTY)

(***************************************************************************)
(* Claims about _bs_price and _bs_greeks                                   *)
(***************************************************************************)
Priced == p_pc \in {"priced", "done"}
GreeksReturned == p_pc = "done"

NonPositiveInput ==
    p_args.S <= 0 \/ p_args.K <= 0 \/ p_args.T <= 0 \/ p_args.sigma <= 0

GreekNames == {"delta", "gamma", "theta", "vega"}

\* C13: _bs_greeks returns delta, gamma, theta and vega all null exactly when
\* at least one of S, K, T, sigma is non-positive, and all four as numbers
\* otherwise; never some null and some populated.
C13_GreeksAllOrNothing ==
    GreeksReturned =>
        /\ DOMAIN p_greeks = GreekNames
        /\ IF NonPositiveInput
           THEN \A g \in GreekNames : p_greeks[g] = PyNone
           ELSE \A g \in GreekNames : p_greeks[g].t = "float"

\* positive S, K and T with sigma = 0: the guard fires on sigma alone
C13_Witness ==
    /\ GreeksReturned
    /\ p_args.S > 0 /\ p_args.K > 0 /\ p_args.T > 0
    /\ p_args.sigma = 0
    /\ p_greeks.delta = PyNone /\ p_greeks.vega = PyNone

\* max(0, S e^(-qT) - K e^(-rT)) for a call, the mirror image for a put
DiscountedIntrinsic(a) ==
    LET fwd == Mul(a.S, Exp(-Mul(a.q, a.T)))
        pvk == Mul(a.K, Exp(-Mul(a.r, a.T)))
    IN  IF a.opt_type = "C" THEN Max(0, fwd - pvk) ELSE Max(0, pvk - fwd)

\* C14: whenever T <= 0, sigma <= 0, S <= 0 or K <= 0, _bs_price returns the
\* discounted intrinsic value, which is never negative; at T = 0, for any
\* sigma >= 0, it is exactly max(0, S - K) for a call and max(0, K - S) for
\* a put.
C14_DegenerateIsIntrinsic ==
    Priced =>
        /\ NonPositiveInput =>
              /\ p_price.n = DiscountedIntrinsic(p_args)
              /\ p_price.n >= 0
        /\ (p_args.T = 0 /\ p_args.sigma >= 0) =>
              p_price.n = IF p_args.opt_type = "C"
                          THEN Max(0, p_args.S - p_args.K)
                          ELSE Max(0, p_args.K - p_args.S)

\* an expired call below its strike, at a positive volatility: worth 0
C14_Witness ==
    /\ Priced
    /\ p_args.T = 0 /\ p_args.sigma > 0
    /\ p_args.opt_type = "C"
    /\ p_args.S > 0 /\ p_args.K > p_args.S
    /\ p_price = PyFloat(0)

(***************************************************************************)
(* Claims about _implied_volatility                                        *)
(***************************************************************************)
Generated == iv_sigma0 > 0
Returned == iv_pc = "done"

\* C10 as stated: on a price generated by _bs_price at a volatility sigma0
\* strictly between 1e-4 and 5.0, the solver returns a non-null volatility
\* within 1e-4 of sigma0.
C10_RoundTripVolatility ==
    (Returned /\ Generated) =>
        /\ iv_ret.t = "float"
        /\ Abs(iv_ret.n - iv_sigma0) <= TOL

\* C10 amended: on a generated price the solver returns either null, and
\* then the price was not positive or 100 iterations passed, or a volatility
\* between 1e-4 and 5.0 whose model price is within 1e-4 of the given price.
C10_RoundTripPrice ==
    (Returned /\ Generated) =>
        \/ /\ iv_ret = PyNone
           /\ iv_args.price <= 0 \/ iv_iter = MAX_ITER
        \/ /\ iv_ret.t = "float"
           /\ iv_ret.n >= SIGMA_LOW /\ iv_ret.n <= SIGMA_HIGH
           /\ Abs(PriceAt(iv_args, iv_ret.n) - iv_args.price) < TOL

C10_Witness ==
    /\ Returned /\ Generated
    /\ iv_ret.t = "float"
    /\ iv_iter >= 5
    /\ Abs(iv_ret.n - iv_sigma0) > TOL

\* the inputs the guard of line 274 rejects
Guarded ==
    iv_args.price <= 0 \/ iv_args.T <= 0 \/ iv_args.S <= 0 \/ iv_args.K <= 0

\* C11: whenever price <= 0 or T <= 0 or S <= 0 or K <= 0 the solver returns
\* null at once: no iteration runs and the pricing model is never evaluated.
C11_GuardReturnsNullWithoutPricing ==
    Guarded =>
        /\ iv_pc \in {"call", "done"}
        /\ iv_evals = 0 /\ iv_iter = 0
        /\ Returned => iv_ret = PyNone

\* a positive price with positive spot and strike, rejected for T = 0 alone
C11_Witness ==
    /\ Returned
    /\ iv_args.price > 0 /\ iv_args.S > 0 /\ iv_args.K > 0
    /\ iv_args.T = 0
    /\ iv_ret = PyNone /\ iv_evals = 0

\* the model price at sigma misses the observed price by the tolerance or more
OffTolerance(sigma) == Abs(PriceAt(iv_args, sigma) - iv_args.price) >= TOL

\* C12: a non-null result v has |_bs_price(..., v, ...) - price| < 1e-4; a
\* search that passes the guard and returns null ran all 100 iterations, none
\* of its midpoints met the tolerance, and no midpoint is returned in its place.
C12_NullIffNotConverged ==
    (Returned /\ ~Guarded) =>
        \/ /\ iv_ret.t = "float"
           /\ ~OffTolerance(iv_ret.n)
        \/ /\ iv_ret = PyNone
           /\ iv_iter = MAX_ITER /\ iv_evals = MAX_ITER
           /\ iv_low /= SIGMA_LOW => OffTolerance(iv_low)
           /\ iv_high /= SIGMA_HIGH => OffTolerance(iv_high)

\* a search on valid inputs that used all its iterations and returned null
C12_Witness ==
    /\ Returned /\ ~Guarded
    /\ iv_iter = MAX_ITER
    /\ iv_ret = PyNone
    /\ iv_low > SIGMA_LOW \/ iv_high < SIGMA_HIGH

\* the bracket of a search in progress or finished
Searching == iv_pc \in {"loop", "done"} /\ ~Guarded

BracketInRange ==
    Searching => /\ SIGMA_LOW <= iv_low
                 /\ iv_low <= iv_high
                 /\ iv_high <= SIGMA_HIGH

\* one step of the solver, seen from the bracket: it starts at [1e-4, 5.0];
\* an iteration that does not return replaces the upper bound by the midpoint
\* when the midpoint price exceeds the observed price and the lower bound
\* otherwise; low never decreases and high never increases.
BracketStep ==
    /\ (iv_pc = "call" /\ iv_pc' = "loop") =>
            iv_low' = SIGMA_LOW /\ iv_high' = SIGMA_HIGH
    /\ iv_pc = "loop" =>
            /\ iv_low' >= iv_low
            /\ iv_high' <= iv_high
            /\ (iv_pc' = "loop") =>
                  LET mid == Midpoint(iv_low, iv_high)
                  IN  IF PriceAt(iv_args, mid) > iv_args.price
                      THEN iv_high' = mid /\ iv_low' = iv_low
                      ELSE iv_low' = mid /\ iv_high' = iv_high

ReturnedStrictlyInside ==
    (Returned /\ iv_ret.t = "float") =>
        iv_ret.n > SIGMA_LOW /\ iv_ret.n < SIGMA_HIGH

ReturnedAboveLow ==
    (Returned /\ iv_ret.t = "float") =>
        iv_ret.n > SIGMA_LOW /\ iv_ret.n <= SIGMA_HIGH

\* C20 as stated: the bracket starts at [1e-4, 5.0], each iteration replaces
\* one bound by the midpoint (the upper one when the midpoint price exceeds
\* the observed price), low never decreases, high never increases,
\* 1e-4 <= low <= high <= 5.0 always, and every returned volatility lies
\* strictly between 1e-4 and 5.0.
C20_MonotoneBracketStrictResult ==
    /\ [](BracketInRange /\ ReturnedStrictlyInside)
    /\ [][BracketStep]_vars

\* C20 amended: the same bracket discipline, and every returned volatility v
\* has 1e-4 < v <= 5.0; the upper end of the bracket can itself be returned.
C20_MonotoneBracket ==
    /\ [](BracketInRange /\ ReturnedAboveLow)
    /\ [][BracketStep]_vars

\* a search that moved both bounds before it returned a volatility
C20_Witness ==
    /\ Returned /\ iv_ret.t = "float"
    /\ iv_low > SIGMA_LOW /\ iv_high < SIGMA_HIGH
    /\ iv_iter >= 3

\* C21: _implied_volatility always terminates: it returns, a volatility or
\* null, after at most 100 iterations and at most 100 evaluations of the
\* pricing model.
C21_Terminates ==
    /\ <>Returned
    /\ [](iv_iter <= MAX_ITER /\ iv_evals <= MAX_ITER)
    /\ [](Returned => (iv_ret = PyNone \/ iv_ret.t = "float"))

\* a search on an unreachable price that ended at the ceiling
C21_Witness ==
    /\ Returned
    /\ iv_args.price = 50 * SCALE
    /\ iv_evals = MAX_ITER
    /\ iv_ret = PyNone

\* _normalize_underlying on each spelling a request can hold
NormalForm == [u \in RequestValues \cup AliasSpellings |-> normalize_underlying(u)]

\* the requested spellings that normalization changes
RewrittenSpellings ==
    { m_underlyings[k].s : k \in {j \in 1..Len(m_underlyings) :
          IsStr(m_underlyings[j]) /\ NormalForm[m_underlyings[j]] /= m_underlyings[j].s} }

\* C27: the list of contracts only grows, by one contract for the record
\* just read, and the underlying of that contract is in the normalized
\* request and is a candidate of that record, the normalized name or the
\* normalized prefix of the trading symbol; it is never a requested spelling
\* that normalization rewrites.
C27_UnderlyingIsRequestedCandidate ==
    [][m_results' /= m_results =>
          LET inst == m_catalog'[Len(m_catalog')]
              new == m_results'[Len(m_results')]
          IN  /\ m_results' = Append(m_results, new)
              /\ m_catalog' = Append(m_catalog, inst)
              /\ new.underlying \in m_normalized
              /\ m_normalized = NormalizedUnderlyings(m_underlyings)
              /\ new.underlying \in Candidates[inst]
              /\ new.underlying \notin RewrittenSpellings]_vars

\* a returned contract on NIFTY, requested as "NIFTY 50", from a record whose
\* trading symbol gives the unrequested candidate BANKNIFTY
C27_Witness ==
    /\ m_pc = "done"
    /\ m_underlyings = <<PyStr(sNIFTY \o sSP \o s50)>>
    /\ Len(m_results) = 1
    /\ m_results[1].underlying = sNIFTY
    /\ PrefixCandidates(SelectSeq(m_catalog, Qualifies)[1]) = {sBANKNIFTY}

\* C28 as stated: a second run on the same dump and the same request returns
\* the list the first run returned, the underlying of each contract included.
C28_SameListOnSecondRun ==
    (m_pc = "done" /\ ~FirstRun) => m_results = FirstResults

(***************************************************************************)
(* Claims about build_option_data_snapshot                                 *)
(***************************************************************************)
Finished == a_pc = "done"
Processed == 1..Len(a_trace)

\* the contract, the quote entry and the spot response of a processed instrument
InstOf(j) == a_instruments[a_trace[j].index]
QuoteFor(inst) == QuoteAt(a_quotes, KeyOf(inst))
LtpFor(inst) == a_ltp[INDEX_SPOT_SYMBOL(inst.underlying)]

\* the spot response gives no price: symbol absent, or last price not coercible
NoSpot(inst) == LtpFor(inst).kind = "absent" \/ ~FloatOk(LtpFor(inst).last_price)
NoLastPrice(inst) == QuoteFor(inst).last_price = PyNone

\* the number of snapshots emitted for the contract at position i
Emissions(i) == Cardinality({j \in Processed : a_trace[j].index = i /\ a_trace[j].emitted})

NullAnalytics(od) ==
    /\ od.implied_volatility = PyNone
    /\ od.delta = PyNone /\ od.gamma = PyNone
    /\ od.theta = PyNone /\ od.vega = PyNone

\* the raw fields of the snapshot are those read from the quote and the spot
RawCarried(od, inst) ==
    LET x == Extracted(QuoteFor(inst))
    IN  /\ od.last_price = x.last_price
        /\ od.bid_price = x.bid_price /\ od.bid_qty = x.bid_qty
        /\ od.ask_price = x.ask_price /\ od.ask_qty = x.ask_qty
        /\ od.volume = x.volume /\ od.open_interest = x.oi
        /\ od.underlying_price = a_spot[inst.underlying]

\* C1 as stated: when the call has ended, a contract whose key has no entry in
\* the quote map has no snapshot and every contract of the batch whose quote
\* is a non-empty record has exactly one.
C1_MissingQuoteSkipsOnlyThatContract ==
    (Finished /\ a_instruments /= <<>>) =>
        \A i \in 1..Len(a_instruments) :
            /\ QuoteFor(a_instruments[i]).kind = "absent" => Emissions(i) = 0
            /\ QuoteFor(a_instruments[i]).kind = "dict" =>
                    a_outcome = "returned" /\ Emissions(i) = 1

C4_NeverFailsAsAWhole == Finished => a_outcome = "returned"

\* C5 as stated: when the call has ended, a contract for which the solver
\* returned null has a snapshot in the returned list, with null analytics
\* and the raw quote fields carried over.
C5_NullVolatilityStillEmitted ==
    Finished =>
        \A j \in Processed :
            a_trace[j].solver = PyNone =>
                /\ a_outcome = "returned"
                /\ a_trace[j].emitted
                /\ NullAnalytics(a_results[a_trace[j].at])
                /\ RawCarried(a_results[a_trace[j].at], InstOf(j))

\* the three conditions of the solver call, read from the inputs of the call
HasLastPrice(inst) == QuoteFor(inst).kind = "dict" /\ ~NoLastPrice(inst)
TimeToExpiryPositive(inst) ==
    /\ ExpiryDate(inst.expiry).ok
    /\ years_to_expiry(ExpiryDate(inst.expiry).n, Now) > 0
SolverDue(inst) == HasLastPrice(inst) /\ ~NoSpot(inst) /\ TimeToExpiryPositive(inst)

\* the solver, and the Greeks, were called for the contract at position i
SolverCalled(i) == \E j \in Processed : a_trace[j].index = i /\ a_trace[j].solver /= NotRun
GreeksCalled(i) == \E j \in Processed : a_trace[j].index = i /\ a_trace[j].greeks /= NotRun

\* C22 as stated: when the call has ended, the solver was called for a
\* contract exactly when its quote carries a last price, the spot of its
\* underlying is resolved and its time to expiry is positive; the Greeks were
\* called only for a volatility the solver returned, and with that volatility.
C22_SolverIffPriceSpotAndTime ==
    Finished =>
        /\ \A i \in 1..Len(a_instruments) : SolverCalled(i) <=> SolverDue(a_instruments[i])
        /\ \A j \in Processed :
              a_trace[j].greeks /= NotRun =>
                  a_trace[j].solver.t = "float" /\ a_trace[j].greeks = a_trace[j].solver

\* the distinct underlyings of the batch, and the calls made on the client
DistinctUnderlyings == {inst.underlying : inst \in Range(a_instruments)}
CallsNamed(name) == {k \in 1..Len(a_fetches) : a_fetches[k].call = name}
PerInstrumentWorkBegun == a_trace /= <<>> \/ a_pc = "solving" \/ a_results /= <<>>

\* C23: once a non-empty batch has left the fetch step there is exactly one
\* spot fetch, whose symbols are those of the distinct underlyings, one each,
\* and one quote fetch with the key of every contract in order; nothing is
\* computed per instrument before both; an empty batch makes no fetch and
\* returns the empty list.
C23_BatchedFetches ==
    /\ PerInstrumentWorkBegun => Len(a_fetches) = 2
    /\ (a_instruments /= <<>> /\ a_pc /= "start") =>
          /\ Len(a_fetches) = 2
          /\ Cardinality(CallsNamed("fetch_ltp_bulk")) = 1
          /\ Cardinality(CallsNamed("fetch_quote_bulk")) = 1
          /\ \A k \in CallsNamed("fetch_ltp_bulk") :
                /\ Len(a_fetches[k].symbols) = Cardinality(DistinctUnderlyings)
                /\ Range(a_fetches[k].symbols) = {INDEX_SPOT_SYMBOL(u) : u \in DistinctUnderlyings}
          /\ \A k \in CallsNamed("fetch_quote_bulk") :
                a_fetches[k].symbols = [i \in 1..Len(a_instruments) |-> KeyOf(a_instruments[i])]
    /\ (a_instruments = <<>> /\ Finished) =>
          a_fetches = <<>> /\ a_results = <<>> /\ a_outcome = "returned"

\* a returned batch of two contracts on one underlying, fetched with one spot symbol
C23_Witness ==
    /\ a_outcome = "returned"
    /\ Len(a_instruments) = 2
    /\ a_instruments[1] /= a_instruments[2]
    /\ Cardinality(DistinctUnderlyings) = 1
    /\ Len(a_fetches[1].symbols) = 1
    /\ Len(a_fetches[2].symbols) = 2
    /\ Len(a_results) = 2

\* the value the quote reports for each field of the snapshot: the first
\* level of each side of the depth, and the volume and open interest
Reported(q) ==
    LET level(side) == IF q.depth.kind = "dict" /\ side.kind = "entry" THEN side ELSE NoLevel
    IN  [ bid_price |-> level(q.depth.buy).price, bid_qty |-> level(q.depth.buy).quantity,
          ask_price |-> level(q.depth.sell).price, ask_qty |-> level(q.depth.sell).quantity,
          volume |-> q.volume, open_interest |-> q.oi ]

PriceFields == {"bid_price", "ask_price"}
SizeFields == {"bid_qty", "ask_qty", "volume", "open_interest"}

\* a value that float(), for a price, or int(), for a size, accepts
Coercible(field, v) == IF field \in PriceFields THEN FloatOk(v) ELSE IntOk(v)
IsZero(v) == v.t \in {"int", "float"} /\ v.n = 0

\* the emitted snapshots with the quote of their contract
EmittedSnapshots == {j \in Processed : a_trace[j].emitted}
SnapshotOf(j) == a_results[a_trace[j].at]

\* C24 as stated: in every emitted snapshot each of the six fields has the
\* numeric value the quote reports when that value is coercible and is null
\* otherwise, and is zero only when the quote reports zero.
C24_QuoteFieldsVerbatimOrNull ==
    \A j \in EmittedSnapshots :
        \A f \in PriceFields \cup SizeFields :
            LET v == Reported(QuoteFor(InstOf(j)))[f]
                got == SnapshotOf(j)[f]
            IN  /\ IF Coercible(f, v)
                   THEN got /= PyNone /\ FloatOf(got) = FloatOf(v)
                   ELSE got = PyNone
                /\ IsZero(got) => FloatOf(v) = 0 /\ Coercible(f, v)

\* the integer part of a non-negative reported number
TruncatedTo(v, k) == k * SCALE <= FloatOf(v) /\ FloatOf(v) < (k + 1) * SCALE

\* C24 amended: a price is the reported value as a float; a size is the
\* reported value as an integer, a fractional number truncated to its integer
\* part; a field is null exactly when the value is absent or not coercible,
\* and is zero only when the reported number is below one.
C24_QuoteFieldsCoercedOrNull ==
    \A j \in EmittedSnapshots :
        \A f \in PriceFields \cup SizeFields :
            LET v == Reported(QuoteFor(InstOf(j)))[f]
                got == SnapshotOf(j)[f]
            IN  /\ got = PyNone <=> ~Coercible(f, v)
                /\ (got /= PyNone /\ f \in PriceFields) =>
                        got.t = "float" /\ got.n = FloatOf(v)
                /\ (got /= PyNone /\ f \in SizeFields) =>
                        got.t = "int" /\ TruncatedTo(v, got.n)
                /\ IsZero(got) => FloatOf(v) < SCALE /\ Coercible(f, v)

\* a returned snapshot with a volume of 0 for a reported 0.4, next to a
\* reported zero ask size kept as zero
C24_Witness ==
    /\ a_outcome = "returned"
    /\ \E j \in EmittedSnapshots :
          /\ QuoteFor(InstOf(j)).volume = PyFloat(400000)
          /\ SnapshotOf(j).volume = PyInt(0)
          /\ SnapshotOf(j).ask_qty = PyInt(0)
          /\ SnapshotOf(j).open_interest = PyInt(7)

\* the time to expiry of the contract, floored at zero, is not positive
NoTimeLeft(inst) ==
    /\ ExpiryDate(inst.expiry).ok
    /\ years_to_expiry(ExpiryDate(inst.expiry).n, Now) <= 0

PresentAlone(inst, q, spot) ==
    /\ q.kind = "dict"
    /\ q.depth.kind = "dict"
    /\ Analysis(inst, spot, Extracted(q).last_price).kind /= "raise"

\* C26 as stated, for the presence of the snapshot: in every returned list
\* a contract has its snapshot exactly when it has one in the list returned
\* for itself alone with the same quote entry and the same spot.
C26_PresenceIndependentOfOthers ==
    a_outcome = "returned" =>
        \A i \in 1..Len(a_instruments) :
            Emissions(i) = 1 <=>
                PresentAlone(a_instruments[i], QuoteFor(a_instruments[i]),
                             a_spot[a_instruments[i].underlying])

\* the ways of picking, in increasing order of position, one contract of the
\* batch for each snapshot of the list
Selections ==
    { f \in [1..Len(a_results) -> 1..Len(a_instruments)] :
        \A p, r \in 1..Len(a_results) : p < r => f[p] < f[r] }

\* C29: the returned list is an order-preserving selection of the batch:
\* its snapshots can be matched with contracts at strictly increasing
\* positions, each with the instrument token of its contract as identifier,
\* and all of them have the same snapshot time.
C29_OrderPreservingSelection ==
    a_outcome = "returned" =>
        /\ \E f \in Selections :
              \A p \in 1..Len(a_results) :
                  /\ a_results[p].option_instrument_id = a_instruments[f[p]].instrument_token
                  /\ \E j \in EmittedSnapshots : a_trace[j].index = f[p] /\ a_trace[j].at = p
        /\ \A i \in 1..Len(a_instruments) : Emissions(i) <= 1
        /\ \A p, r \in 1..Len(a_results) :
              a_results[p].snapshot_time = a_results[r].snapshot_time

\* a returned list of two snapshots for a batch of two different contracts
C29_Witness ==
    /\ a_outcome = "returned"
    /\ Len(a_instruments) = 2
    /\ Len(a_results) = 2
    /\ a_instruments[1].instrument_token /= a_instruments[2].instrument_token
    /\ a_results[1].option_instrument_id = a_instruments[1].instrument_token
    /\ a_results[2].option_instrument_id = a_instruments[2].instrument_token

AnalyticsFields == {"implied_volatility", "delta", "gamma", "theta", "vega"}

\* C30: in every snapshot of the list, the implied volatility and the four
\* Greeks are all null or all non-null.
C30_AnalyticsAllOrNothing ==
    \A p \in 1..Len(a_results) :
        \/ \A f \in AnalyticsFields : a_results[p][f] = PyNone
        \/ \A f \in AnalyticsFields : a_results[p][f] /= PyNone

\* a returned list with a snapshot that has its five analytics and one, for
\* which the solver ran and found no volatility, that has none
C30_Witness ==
    /\ a_outcome = "returned"
    /\ \E j, k \in EmittedSnapshots :
          /\ \A f \in AnalyticsFields : SnapshotOf(j)[f] /= PyNone
          /\ a_trace[k].solver = PyNone
          /\ \A f \in AnalyticsFields : SnapshotOf(k)[f] = PyNone

====
